---- MODULE Spec2Model ----
(***************************************************************************)
(* IceCreamSwapWeb3: EthAdvanced.get_logs, the wide-range eth_getLogs      *)
(* retrieval of Web3Advanced, against a JSON-RPC node and the Subsquid     *)
(* archive.                                                                *)
(*                                                                         *)
(* get_logs is recursive. Every recursive call's result is concatenated in *)
(* call order by its caller (results += ..., left + right, results + ...)  *)
(* and no caller catches an exception of a recursive call (the recursive   *)
(* calls are made in the except handler, in the for loop and in the else   *)
(* clause, never inside a try body), so the recursion is the depth-first   *)
(* traversal kept here in `stack`: the calls still to make, the next one   *)
(* first, with `results` the logs accumulated so far.                      *)
(***************************************************************************)
EXTENDS Integers, Sequences, FiniteSets, TLC

VARIABLES
    w3,         \* the client state self.w3.* that get_logs reads
    node,       \* the JSON-RPC node: widest span it accepts, faults it still injects
    todo,       \* top-level get_logs calls the application still makes
    done,       \* the top-level calls that ended: input, outcome, result
    pc,         \* "idle" | "running" | "returned" | "raised"
    inp,        \* the arguments of the running top-level call
    stack,      \* get_logs calls still to make, depth first
    results,    \* logs accumulated by the calls made so far
    error,      \* the exception that reached the caller ("none" while there is none)
    retries,    \* exponential_retry's counter of the request being made
    calls,      \* history: every get_logs invocation of the running top-level call
    requests,   \* history: every request sent to the node or to the archive
    threads,    \* the threads inside get_block / get_block_number, with their locals
    observed,   \* history: the block numbers get_block / get_block_number returned
    engine,     \* one run of exponential_retry's inner(): its locals and its history;
                \* for the wrappers of EthAdvanced: the clients built and a call through them
    builder,    \* a MultiCall object and the _inner_call recursion on its calls;
                \* for _decode_muilticall: the bytes it decodes and its locals
    merged,     \* a list of state overrides and what merge_state_overwrites made of it
    batcher,    \* BatchRetryMiddleware.middleware on one batch, and the transport's history
    probe,      \* a capability probe of Web3Advanced.__init__ and what it found
    resolved    \* get_logs from its filter to its first request: the bounds it resolved

vars == <<w3, node, todo, done, pc, inp, stack, results, error, retries, calls, requests,
          threads, observed, engine, builder, merged, batcher, probe, resolved>>

\* the state of get_logs, beside the client w3
getLogsVars == <<node, todo, done, pc, inp, stack, results, error, retries, calls, requests>>
\* the state of the other parts of the library, which get_logs leaves alone
besideGetLogs == <<threads, observed, engine, builder, merged, batcher, probe, resolved>>
\* the value of a variable in the behaviours of a part that does not use it
Unused == "unused"

----------------------------------------------------------------------------
(* Bounds of the model *)

\* blocks 0..MaxBlock can be asked for
MaxBlock == 3
\* probed filter ranges up to this value are tried as w3.filter_block_range
MaxFilterRange == 5
\* the node's span limit is drawn from 1..MaxSpan, or is no limit at all
MaxSpan == 1
\* transient faults the node may inject in one behaviour
MaxFaults == 1
\* with the head far away, the blocks below ArchiveEdge are old enough for the archive
ArchiveEdge == 2
\* blocks one Subsquid worker answers per request are drawn from 1..MaxWorkerSpan
MaxWorkerSpan == 2

(* Program constants *)

\* from_block < latest_seen_block - 1_000
SubsquidLag == 1000
\* unstable_blocks default
DefaultUnstableBlocks == 5
\* "unknown block" and retries >= 3
UnknownBlockRetries == 3

FILTER_RANGES_TO_TRY == {10000, 5000, 2000, 1000, 500, 200, 100, 50, 20, 10, 5, 2, 1}

----------------------------------------------------------------------------
(* Values *)

Blocks == 0..MaxBlock

\* Python's None, for an absent witness or blockHash
None == [num |-> -1, fork |-> "none"]

\* the hash of block n of the chain the node follows
NodeHash(n) == [num |-> n, fork |-> "node"]

\* the hash of a block n of another fork, which the node does not have
ForkHash(n) == [num |-> n, fork |-> "fork"]

\* a block body as eth_getBlockByNumber returns it
NodeBlock(n) == [number |-> n, hash |-> NodeHash(n), parentHash |-> NodeHash(n - 1)]

\* the logs the chain holds in block n, in log index order: n % 3 of them
NodeLogs(n) == [i \in 1..(n % 3) |-> [blockNumber |-> n, logIndex |-> i - 1]]

RECURSIVE LogsOfRange(_, _)
\* the logs of blocks a..b in block order
LogsOfRange(a, b) == IF a > b THEN <<>> ELSE NodeLogs(a) \o LogsOfRange(a + 1, b)

----------------------------------------------------------------------------
(* The node *)

\* an eth_getLogs request
LogsRequest(blockHash, fromBlock, toBlock, batch) ==
    [method |-> "eth_getLogs", blockHash |-> blockHash,
     fromBlock |-> fromBlock, toBlock |-> toBlock, batch |-> batch]

\* an eth_getBlockByNumber request, as self._get_block(n) adds it to a batch
BlockRequest(n) ==
    [method |-> "eth_getBlockByNumber", blockHash |-> None,
     fromBlock |-> n, toBlock |-> n, batch |-> TRUE]

\* the query get_filter sends to the archive
ArchiveRequest(fromBlock, toBlock) ==
    [method |-> "subsquid", blockHash |-> None,
     fromBlock |-> fromBlock, toBlock |-> toBlock, batch |-> FALSE]

Ok(logs) == [ok |-> TRUE, logs |-> logs, exc |-> "none"]
Failed(exc) == [ok |-> FALSE, logs |-> <<>>, exc |-> exc]

\* The node's answer to one eth_getLogs request. `fault` is a transient failure
\* injected on this request; a by-hash request for a block the node does not
\* have is answered with the error "unknown block", or, by a lenient node,
\* with no logs; a range wider than the node's limit is rejected.
NodeGetLogs(req, fault, lenient) ==
    IF fault THEN Failed("rpc error")
    ELSE IF req.blockHash # None
    THEN IF req.blockHash.fork = "node" /\ req.blockHash.num \in Blocks
         THEN Ok(NodeLogs(req.blockHash.num))
         ELSE IF lenient THEN Ok(<<>>) ELSE Failed("unknown block")
    ELSE IF req.toBlock - req.fromBlock + 1 > node.max_span
    THEN Failed("rpc error")
    ELSE Ok(LogsOfRange(req.fromBlock, req.toBlock))

\* the faults the node can inject on the next request
FaultChoices == IF node.faults_left > 0 THEN BOOLEAN ELSE {FALSE}

NodeAfter(fault) ==
    IF fault THEN [node EXCEPT !.faults_left = @ - 1] ELSE node

----------------------------------------------------------------------------
(* Subsquid.get_filter *)

RECURSIVE WorkerLoop(_, _, _)
\* while from_block <= to_block: one worker answers the blocks from_block..last
\* (`span` of them at most), whose logs are appended; from_block = last + 1
WorkerLoop(from_block, to_block, span) ==
    IF from_block <= to_block
    THEN LET last_processed_block ==
                 IF from_block + span - 1 < to_block
                 THEN from_block + span - 1 ELSE to_block
             rest == WorkerLoop(last_processed_block + 1, to_block, span)
         IN  [next_block |-> rest.next_block,
              logs |-> LogsOfRange(from_block, last_processed_block) \o rest.logs]
    ELSE [next_block |-> from_block, logs |-> <<>>]

\* get_filter(filter_params, partial_allowed=True) with the archive indexed up
\* to block `latest_block`: (next_block, logs), or the exception it raises
get_filter(from_block, to_block, latest_block, span, http_error) ==
    IF http_error
    THEN [ok |-> FALSE, exc |-> "HTTPError", next_block |-> from_block, logs |-> <<>>]
    ELSE IF from_block > latest_block
    THEN [ok |-> FALSE, exc |-> "ValueError", next_block |-> from_block, logs |-> <<>>]
    ELSE LET till == IF to_block > latest_block THEN latest_block ELSE to_block
             got == WorkerLoop(from_block, till, span)
         IN  [ok |-> TRUE, exc |-> "none", next_block |-> got.next_block, logs |-> got.logs]

----------------------------------------------------------------------------
(* EthAdvanced.get_logs: the filter of one call and the branch it takes *)

\* One get_logs call: its filter parameters and its use_subsquid argument.
\* `id` is its index in `calls` (0 until the call is made), `parent` the id of
\* the call that makes it and `via` the statement that makes it.
Frame(blockHash, fromBlock, toBlock, fromBlockParentHash, toBlockHash, use_subsquid, parent, via) ==
    [blockHash |-> blockHash, fromBlock |-> fromBlock, toBlock |-> toBlock,
     fromBlockParentHash |-> fromBlockParentHash, toBlockHash |-> toBlockHash,
     use_subsquid |-> use_subsquid, id |-> 0, parent |-> parent, via |-> via]

top == Head(stack)

\* the id of the call at the top of the stack
TopId == IF top.id = 0 THEN Len(calls) + 1 ELSE top.id

num_blocks(f) == f.toBlock - f.fromBlock + 1

\* faulty variant, not the code: the blockHash shortcut is taken before filter_block_range is tested
DispatchHashFirst(f) ==
    IF f.blockHash # None THEN "block_hash"
    ELSE IF w3.filter_block_range = 0 THEN "unsupported"
    ELSE IF ~(f.toBlock >= f.fromBlock) THEN "assert_range"
    ELSE IF f.fromBlock = f.toBlock /\ f.toBlockHash # None THEN "single_by_hash"
    ELSE IF /\ f.use_subsquid
            /\ w3.subsquid_available
            /\ f.fromBlock < w3.latest_seen_block - SubsquidLag
         THEN "subsquid"
    ELSE IF num_blocks(f) = 1 THEN "single"
    ELSE IF num_blocks(f) > w3.filter_block_range THEN "split"
    ELSE "batch"

\* faulty variant, not the code: a range one block wider than filter_block_range is not split
DispatchSplitsLate(f) ==
    IF w3.filter_block_range = 0 THEN "unsupported"
    ELSE IF f.blockHash # None THEN "block_hash"
    ELSE IF ~(f.toBlock >= f.fromBlock) THEN "assert_range"
    ELSE IF f.fromBlock = f.toBlock /\ f.toBlockHash # None THEN "single_by_hash"
    ELSE IF /\ f.use_subsquid
            /\ w3.subsquid_available
            /\ f.fromBlock < w3.latest_seen_block - SubsquidLag
         THEN "subsquid"
    ELSE IF num_blocks(f) = 1 THEN "single"
    ELSE IF num_blocks(f) > w3.filter_block_range + 1 THEN "split"
    ELSE "batch"

\* The branch of get_logs a call takes, in the order of its if statements.
Dispatch(f) ==
    IF w3.filter_block_range = 0 THEN "unsupported"
    ELSE IF f.blockHash # None THEN "block_hash"
    ELSE IF ~(f.toBlock >= f.fromBlock) THEN "assert_range"
    ELSE IF f.fromBlock = f.toBlock /\ f.toBlockHash # None THEN "single_by_hash"
    ELSE IF /\ f.use_subsquid
            /\ w3.subsquid_available
            /\ f.fromBlock < w3.latest_seen_block - SubsquidLag
         THEN "subsquid"
    ELSE IF num_blocks(f) = 1 THEN "single"
    ELSE IF num_blocks(f) > w3.filter_block_range THEN "split"
    ELSE "batch"

\* get_logs_inner: no_retry is forced when the client does not retry
InnerNoRetry == inp.no_retry \/ ~w3.should_retry

\* the request get_logs_inner sends for a call that ends in a single request
InnerRequest(f) ==
    IF Dispatch(f) = "block_hash" THEN LogsRequest(f.blockHash, 0, 0, FALSE)
    ELSE IF Dispatch(f) = "single_by_hash" THEN LogsRequest(f.toBlockHash, 0, 0, FALSE)
    ELSE LogsRequest(None, f.fromBlock, f.toBlock, FALSE)

(* Splitting by the probed range *)

\* faulty variant, not the code: the loop steps by filter_block_range + 1, skipping a block per chunk
ChunkStartsWide(from_block, to_block) ==
    [k \in 1..((to_block - from_block) \div (w3.filter_block_range + 1) + 1) |->
        from_block + (k - 1) * (w3.filter_block_range + 1)]

\* range(from_block, to_block + 1, filter_block_range), as a sequence
ChunkStarts(from_block, to_block) ==
    [k \in 1..((to_block - from_block) \div w3.filter_block_range + 1) |->
        from_block + (k - 1) * w3.filter_block_range]

\* filter_end = min(filter_start + filter_block_range - 1, to_block)
FilterEnd(filter_start, to_block) ==
    IF filter_start + w3.filter_block_range - 1 < to_block
    THEN filter_start + w3.filter_block_range - 1
    ELSE to_block

\* partial_filter of the chunk that starts at filter_start, witnesses deleted
\* where the chunk does not touch the boundary of f
PartialFilter(f, filter_start, use_subsquid) ==
    LET filter_end == FilterEnd(filter_start, f.toBlock)
    IN  Frame(None, filter_start, filter_end,
              IF f.fromBlockParentHash # None /\ filter_start # f.fromBlock
              THEN None ELSE f.fromBlockParentHash,
              IF f.toBlockHash # None /\ filter_end # f.toBlock
              THEN None ELSE f.toBlockHash,
              use_subsquid, TopId, "chunk")

\* the recursive calls of the for loop, in loop order
Chunks(f, use_subsquid) ==
    LET starts == ChunkStarts(f.fromBlock, f.toBlock)
    IN  [k \in 1..Len(starts) |-> PartialFilter(f, starts[k], use_subsquid)]

(* Bisecting after a failure *)

\* faulty variant, not the code: the range is cut below its first block, so the left half is empty
MidBlockBelowRange(from_block, to_block) == from_block - 1

\* mid_block = (from_block + to_block) // 2
MidBlock(from_block, to_block) == (from_block + to_block) \div 2

\* left_filter = {**filter_params, "toBlock": mid_block} without toBlockHash
LeftFilter(f, use_subsquid) ==
    Frame(None, f.fromBlock, MidBlock(f.fromBlock, f.toBlock),
          f.fromBlockParentHash, None, use_subsquid, TopId, "left")

\* faulty variant, not the code: the right half starts at mid_block + 2, so block mid_block + 1 is lost
RightFilterGap(f, use_subsquid) ==
    Frame(None, MidBlock(f.fromBlock, f.toBlock) + 2, f.toBlock,
          None, f.toBlockHash, use_subsquid, TopId, "right")

\* right_filter = {**filter_params, "fromBlock": mid_block + 1} without
\* fromBlockParentHash
RightFilter(f, use_subsquid) ==
    Frame(None, MidBlock(f.fromBlock, f.toBlock) + 1, f.toBlock,
          None, f.toBlockHash, use_subsquid, TopId, "right")

\* faulty variant, not the code: the halves are fetched and concatenated right half first
HalvesSwapped(f, use_subsquid) ==
    <<RightFilter(f, use_subsquid), LeftFilter(f, use_subsquid)>>

\* return self.get_logs(left_filter) + self.get_logs(right_filter)
Halves(f, use_subsquid) ==
    <<LeftFilter(f, use_subsquid), RightFilter(f, use_subsquid)>>

(* The batched request of a range of 2..filter_block_range blocks *)

\* the requests added to the batch, in the order of the batch.add calls
BatchRequests(f) ==
    (IF f.fromBlockParentHash # None THEN <<BlockRequest(f.fromBlock)>> ELSE <<>>)
    \o <<LogsRequest(None, f.fromBlock, f.toBlock, TRUE)>>
    \o <<BlockRequest(f.toBlock)>>

NoBody == [number |-> -1, hash |-> None, parentHash |-> None]

\* what batch.execute() returns for one request of the batch
BatchAnswer(req) ==
    IF req.method = "eth_getLogs"
    THEN [events |-> LogsOfRange(req.fromBlock, req.toBlock), body |-> NoBody]
    ELSE [events |-> <<>>, body |-> NodeBlock(req.fromBlock)]

\* the number of values the tuple assignment of batch_results unpacks into
UnpackArity(f) == IF f.fromBlockParentHash # None THEN 2 ELSE 3

\* The try block: the batch is sent, its results are unpacked and the block
\* bodies are compared with the witnesses. [ok, events] when it returns the
\* events, [~ok, exc] with the exception it raises otherwise.
TryBatch(f, fault) ==
    LET reqs == BatchRequests(f)
        batch_results == [k \in 1..Len(reqs) |-> BatchAnswer(reqs[k])]
    IN  IF fault \/ num_blocks(f) > node.max_span
        THEN Failed("rpc error")
        ELSE IF Len(batch_results) # UnpackArity(f)
        THEN Failed("ValueError")
        ELSE LET events == batch_results[1].events
                 to_block_body == batch_results[2].body
             IN  IF /\ f.fromBlockParentHash = None
                    /\ batch_results[3].body.number # f.fromBlock
                 THEN Failed("AssertionError")
                 ELSE IF /\ f.fromBlockParentHash = None
                         /\ batch_results[3].body.parentHash # f.fromBlockParentHash
                 THEN Failed("ForkedBlock")
                 ELSE IF to_block_body.number # f.toBlock
                 THEN Failed("AssertionError")
                 ELSE IF f.toBlockHash # None /\ to_block_body.hash # f.toBlockHash
                 THEN Failed("ForkedBlock")
                 ELSE Ok(events)

\* faulty variant, not the code: an error of the node is raised to the caller instead of bisecting
SplitsOnLocalErrors(exc) == exc # "rpc error"

\* except Exception: every exception of the try block is answered by bisecting
SplitsOn(exc) == TRUE

(* The archive *)

\* faulty variant, not the code: the continuation starts at the last block the archive answered
ArchiveContinuationFromLast(f, next_block) ==
    Frame(None, next_block - 1, f.toBlock, f.fromBlockParentHash, f.toBlockHash,
          FALSE, TopId, "archive")

\* faulty variant, not the code: the continuation keeps the caller's use_subsquid
ArchiveContinuationAsksAgain(f, next_block) ==
    Frame(None, next_block, f.toBlock, f.fromBlockParentHash, f.toBlockHash,
          f.use_subsquid, TopId, "archive")

\* the call that continues after a partial archive answer:
\* {**filter_params, "fromBlock": next_block}, with use_subsquid = False
ArchiveContinuation(f, next_block) ==
    Frame(None, next_block, f.toBlock, f.fromBlockParentHash, f.toBlockHash,
          FALSE, TopId, "archive")

----------------------------------------------------------------------------
(* The state machine *)

\* the entry of `calls` for the call f
CallRecord(f, branch, exc, archive) ==
    [fromBlock |-> f.fromBlock, toBlock |-> f.toBlock, blockHash |-> f.blockHash,
     fromBlockParentHash |-> f.fromBlockParentHash, toBlockHash |-> f.toBlockHash,
     use_subsquid |-> f.use_subsquid, parent |-> f.parent, via |-> f.via,
     branch |-> branch, exc |-> exc, archive |-> archive]

\* the call at the top of the stack is made (or goes on) and takes `branch`
Made(branch, exc) ==
    calls' = IF top.id = 0
             THEN Append(calls, CallRecord(top, branch, exc, "none"))
             ELSE [calls EXCEPT ![top.id].branch = branch, ![top.id].exc = exc]

\* the calls still to make are `rest`; get_logs returns when none is left
Continue(rest) ==
    /\ stack' = rest
    /\ pc' = IF rest = <<>> THEN "returned" ELSE "running"
    /\ error' = "none"

\* the exception exc reaches the caller of get_logs
Raise(exc) ==
    /\ stack' = <<>>
    /\ pc' = "raised"
    /\ error' = exc

\* the arguments of a top-level call
Input(blockHash, fromBlock, toBlock, fromBlockParentHash, toBlockHash, use_subsquid, no_retry) ==
    [blockHash |-> blockHash, fromBlock |-> fromBlock, toBlock |-> toBlock,
     fromBlockParentHash |-> fromBlockParentHash, toBlockHash |-> toBlockHash,
     use_subsquid |-> use_subsquid, no_retry |-> no_retry]

\* the application calls w3.eth.get_logs(_filter_params, no_retry, use_subsquid)
Call ==
    /\ pc = "idle"
    /\ todo # <<>>
    /\ inp' = Head(todo)
    /\ todo' = Tail(todo)
    /\ stack' = <<Frame(Head(todo).blockHash, Head(todo).fromBlock, Head(todo).toBlock,
                        Head(todo).fromBlockParentHash, Head(todo).toBlockHash,
                        Head(todo).use_subsquid, 0, "top")>>
    /\ pc' = "running"
    /\ results' = <<>>
    /\ error' = "none"
    /\ retries' = 0
    /\ calls' = <<>>
    /\ requests' = <<>>
    /\ UNCHANGED <<w3, node, done>>
    /\ UNCHANGED besideGetLogs

\* if filter_block_range == 0: raise Exception("RPC does not support eth_getLogs")
Unsupported ==
    /\ pc = "running"
    /\ Dispatch(top) = "unsupported"
    /\ Made("unsupported", "Unsupported")
    /\ Raise("Unsupported")
    /\ UNCHANGED <<w3, node, todo, done, inp, results, retries, requests>>
    /\ UNCHANGED besideGetLogs

\* assert to_block >= from_block
AssertRange ==
    /\ pc = "running"
    /\ Dispatch(top) = "assert_range"
    /\ Made("assert_range", "AssertionError")
    /\ Raise("AssertionError")
    /\ UNCHANGED <<w3, node, todo, done, inp, results, retries, requests>>
    /\ UNCHANGED besideGetLogs

\* return self.get_logs_inner(filter, no_retry=no_retry): one attempt of the
\* request under exponential_retry. It returns the logs, raises (no_retry, or
\* "unknown block" after 3 retries) or is made again.
GetLogsInner ==
    /\ pc = "running"
    /\ Dispatch(top) \in {"block_hash", "single_by_hash", "single"}
    /\ \E fault \in FaultChoices, lenient \in BOOLEAN :
         LET req == InnerRequest(top)
             ans == NodeGetLogs(req, fault, lenient)
         IN  /\ requests' = Append(requests, req)
             /\ node' = NodeAfter(fault)
             /\ Made(Dispatch(top), ans.exc)
             /\ IF ans.ok
                THEN /\ results' = results \o ans.logs
                     /\ retries' = 0
                     /\ Continue(Tail(stack))
                ELSE IF \/ InnerNoRetry
                        \/ (ans.exc = "unknown block" /\ retries >= UnknownBlockRetries)
                THEN /\ Raise(ans.exc)
                     /\ UNCHANGED <<results, retries>>
                ELSE /\ retries' = retries + 1
                     /\ stack' = <<[top EXCEPT !.id = TopId]>> \o Tail(stack)
                     /\ UNCHANGED <<pc, error, results>>
    /\ UNCHANGED <<w3, todo, done, inp>>
    /\ UNCHANGED besideGetLogs

\* if num_blocks > filter_block_range: the for loop over the chunks
Split ==
    /\ pc = "running"
    /\ Dispatch(top) = "split"
    /\ Made("split", "none")
    /\ Continue(Chunks(top, top.use_subsquid) \o Tail(stack))
    /\ UNCHANGED <<w3, node, todo, done, inp, results, retries, requests>>
    /\ UNCHANGED besideGetLogs

\* the try block and its except handler: the events are returned, or the
\* range is bisected and both halves are fetched
BatchOrBisect ==
    /\ pc = "running"
    /\ Dispatch(top) = "batch"
    /\ \E fault \in FaultChoices :
         LET got == TryBatch(top, fault)
         IN  /\ requests' = requests \o BatchRequests(top)
             /\ node' = NodeAfter(fault)
             /\ IF got.ok
                THEN /\ Made("batch", "none")
                     /\ results' = results \o got.logs
                     /\ Continue(Tail(stack))
                ELSE IF SplitsOn(got.exc)
                THEN /\ Made("bisect", got.exc)
                     /\ Continue(Halves(top, top.use_subsquid) \o Tail(stack))
                     /\ UNCHANGED results
                ELSE /\ Made("batch", got.exc)
                     /\ Raise(got.exc)
                     /\ UNCHANGED results
    /\ UNCHANGED <<w3, todo, done, inp, retries>>
    /\ UNCHANGED besideGetLogs

\* the archive is asked once: its logs are returned, or are followed by the
\* RPC result from next_block on, or it raises and the RPC path goes on
UseSubsquid ==
    /\ pc = "running"
    /\ Dispatch(top) = "subsquid"
    /\ \E latest_block \in (top.fromBlock - 1)..top.toBlock,
          span \in 1..MaxWorkerSpan, http_error \in BOOLEAN :
         LET got == get_filter(top.fromBlock, top.toBlock, latest_block, span, http_error)
             rec(archive) == CallRecord(top, "subsquid", got.exc, archive)
         IN  /\ requests' = Append(requests, ArchiveRequest(top.fromBlock, top.toBlock))
             /\ IF ~got.ok
                THEN /\ calls' = Append(calls, rec("raised"))
                     /\ stack' = <<[top EXCEPT !.use_subsquid = FALSE, !.id = TopId]>>
                                 \o Tail(stack)
                     /\ UNCHANGED <<pc, error, results>>
                ELSE IF ~(got.next_block <= top.toBlock + 1)
                THEN /\ calls' = Append(calls, rec("raised"))
                     /\ Raise("AssertionError")
                     /\ UNCHANGED results
                ELSE IF got.next_block = top.toBlock + 1
                THEN /\ calls' = Append(calls, rec("full"))
                     /\ results' = results \o got.logs
                     /\ Continue(Tail(stack))
                ELSE /\ calls' = Append(calls, rec("partial"))
                     /\ results' = results \o got.logs
                     /\ Continue(<<ArchiveContinuation(top, got.next_block)>> \o Tail(stack))
    /\ UNCHANGED <<w3, node, todo, done, inp, retries>>
    /\ UNCHANGED besideGetLogs

\* get_logs has returned or raised: the application has its outcome
Finish ==
    /\ pc \in {"returned", "raised"}
    /\ done' = Append(done, [inp |-> inp, outcome |-> pc, error |-> error,
                             logs |-> IF pc = "returned" THEN results ELSE <<>>])
    /\ pc' = "idle"
    /\ UNCHANGED <<w3, node, todo, inp, stack, results, error, retries, calls, requests>>
    /\ UNCHANGED besideGetLogs

----------------------------------------------------------------------------
(* The initial states: a client after construction, a node, and the calls the
   application is going to make *)

\* the values _find_max_filter_range can give w3.filter_block_range
FilterRanges == {r \in FILTER_RANGES_TO_TRY \cup {0} : r <= MaxFilterRange}

\* the witnesses a caller can hold for block n: none, the hash the node has
\* for it, or the hash of another fork's block
Witnesses(n) == {None, NodeHash(n), ForkHash(n)}

\* get_logs over a block range given by numbers, with or without witnesses
RangeInputs ==
    UNION {{Input(None, a, b, p, h, s, r) :
                p \in IF a <= b THEN Witnesses(a - 1) ELSE {None},
                h \in IF a <= b THEN Witnesses(b) ELSE {None},
                s \in BOOLEAN, r \in BOOLEAN} :
           a \in Blocks, b \in Blocks}

\* get_logs for one block given by its hash
HashInputs ==
    {Input(h, 0, 0, None, None, s, r) :
        h \in {NodeHash(n) : n \in Blocks} \cup {ForkHash(n) : n \in Blocks},
        s \in BOOLEAN, r \in BOOLEAN}

RECURSIVE PartsOf(_, _, _, _, _)
\* the calls for the contiguous sub-ranges that the cut points `cuts` make of
\* a..b, in ascending order (a cut c ends a sub-range at block c)
PartsOf(a, b, cuts, s, r) ==
    IF \E c \in cuts : a <= c /\ c < b
    THEN LET c == CHOOSE c \in cuts :
                    /\ a <= c /\ c < b
                    /\ \A d \in cuts : (a <= d /\ d < b) => c <= d
         IN  <<Input(None, a, c, None, None, s, r)>> \o PartsOf(c + 1, b, cuts, s, r)
    ELSE <<Input(None, a, b, None, None, s, r)>>

\* a call for a range followed by the calls for the parts of one of its partitions
PartitionPlans ==
    UNION {{<<Input(None, a, b, None, None, s, r)>> \o PartsOf(a, b, cuts, s, r) :
                cuts \in SUBSET (a..(b - 1)) \ {{}}, s \in BOOLEAN, r \in {FALSE}} :
           a \in Blocks, b \in Blocks}

Plans == {<<i>> : i \in RangeInputs \cup HashInputs} \cup PartitionPlans

\* The settings that cannot change what a plan's calls do are not varied:
\* the archive's availability and latest_seen_block matter only to calls with
\* use_subsquid, and no_retry only to a client that retries.
Varied(client, plan) ==
    /\ plan[1].no_retry => client.should_retry
    /\ ~plan[1].use_subsquid =>
          client.subsquid_available /\ client.latest_seen_block = MaxBlock
    /\ ~client.subsquid_available =>
          client.latest_seen_block = ArchiveEdge + SubsquidLag

Init ==
    /\ w3 \in [filter_block_range : FilterRanges,
               latest_seen_block : {MaxBlock, ArchiveEdge + SubsquidLag},
               unstable_blocks : {DefaultUnstableBlocks},
               should_retry : BOOLEAN,
               subsquid_available : BOOLEAN]
    /\ node \in [max_span : (1..MaxSpan) \cup {MaxBlock + 1},
                 faults_left : {MaxFaults}]
    /\ todo \in Plans
    /\ Varied(w3, todo)
    /\ done = <<>>
    /\ pc = "idle"
    /\ inp = Input(None, 0, 0, None, None, FALSE, FALSE)
    /\ stack = <<>>
    /\ results = <<>>
    /\ error = "none"
    /\ retries = 0
    /\ calls = <<>>
    /\ requests = <<>>
    /\ threads = Unused
    /\ observed = Unused
    /\ engine = Unused
    /\ builder = Unused
    /\ merged = Unused
    /\ batcher = Unused
    /\ probe = Unused
    /\ resolved = Unused

Next ==
    \/ Call
    \/ Unsupported
    \/ AssertRange
    \/ GetLogsInner
    \/ Split
    \/ BatchOrBisect
    \/ UseSubsquid
    \/ Finish

Spec == Init /\ [][Next]_vars

\* one call of a client that does not retry it: no_retry = true, or
\* should_retry = false
InitNoRetry ==
    /\ Init
    /\ Len(todo) = 1
    /\ todo[1].no_retry \/ ~w3.should_retry

\* a call that has been made runs on: the interpreter takes the next step of
\* get_logs whenever there is one
SpecNoRetry == InitNoRetry /\ [][Next]_vars /\ WF_vars(Next)

----------------------------------------------------------------------------
(* Vocabulary of the properties *)

\* a top-level call is running or has just ended
InCall == pc \in {"running", "returned", "raised"}

\* the running call asks for a block range by numbers, from_block <= to_block
RangeCall == inp.blockHash = None /\ inp.fromBlock <= inp.toBlock

\* the witnesses of the running call are absent or are the node's own hashes
TruthfulWitnesses ==
    /\ inp.fromBlockParentHash \in {None, NodeHash(inp.fromBlock - 1)}
    /\ inp.toBlockHash \in {None, NodeHash(inp.toBlock)}

\* the node has injected no transient fault
NoFaults == node.faults_left = MaxFaults

\* the node accepts an eth_getLogs request of every span
NoSpanLimit == node.max_span > MaxBlock

\* the logs the chain holds in blocks a..b, as a set
ChainLogs(a, b) ==
    {l \in [blockNumber : a..b, logIndex : 0..1] : l.logIndex < l.blockNumber % 3}

\* (block_number, log_index) strictly increasing along logs
StrictlyIncreasing(logs) ==
    \A k \in 1..(Len(logs) - 1) :
        \/ logs[k].blockNumber < logs[k + 1].blockNumber
        \/ /\ logs[k].blockNumber = logs[k + 1].blockNumber
           /\ logs[k].logIndex < logs[k + 1].logIndex

\* logs holds every log of blocks a..b once, nothing else, in ascending order
ExactlyTheLogs(logs, a, b) ==
    /\ {logs[k] : k \in 1..Len(logs)} = ChainLogs(a, b)
    /\ Len(logs) = Cardinality(ChainLogs(a, b))
    /\ StrictlyIncreasing(logs)

\* the requests of the running call that are eth_getLogs requests
GetLogsRequests == {k \in 1..Len(requests) : requests[k].method = "eth_getLogs"}

\* the calls made by the call with id i, by their ids
Kids(i) == {j \in 1..Len(calls) : calls[j].parent = i}

----------------------------------------------------------------------------
(* Properties of get_logs *)

\* C1: for a block range from_block <= to_block, of any size, and a node that
\* answers every request correctly, get_logs with use_subsquid = false does not
\* raise and returns exactly the logs of blocks from_block..to_block: every
\* log once, none of another block, (block_number, log_index) strictly increasing.
C1_RangeLogsExact ==
    ( /\ InCall /\ RangeCall /\ ~inp.use_subsquid /\ TruthfulWitnesses
      /\ w3.filter_block_range > 0
      /\ NoFaults /\ NoSpanLimit )
    => /\ pc # "raised"
       /\ pc = "returned" => ExactlyTheLogs(results, inp.fromBlock, inp.toBlock)

\* C1 happens: a range wider than filter_block_range has been answered by a
\* correct node with logs of several blocks
C1_Witness ==
    /\ pc = "returned" /\ RangeCall /\ ~inp.use_subsquid /\ TruthfulWitnesses
    /\ NoFaults /\ NoSpanLimit
    /\ w3.filter_block_range > 0
    /\ num_blocks(inp) > w3.filter_block_range
    /\ Len(results) >= 3

\* C2: when the node rejects every eth_getLogs request wider than w blocks
\* (1 <= w < filter_block_range) and answers the others correctly, get_logs does
\* not raise, bisects the ranges the node rejects, and returns the logs of
\* every block of the range once, in ascending order.
C2_BisectsOnRejection ==
    ( /\ InCall /\ RangeCall /\ ~inp.use_subsquid /\ TruthfulWitnesses
      /\ NoFaults
      /\ node.max_span < w3.filter_block_range )
    => /\ pc # "raised"
       /\ \A k \in GetLogsRequests :
             (requests[k].blockHash = None /\
              requests[k].toBlock - requests[k].fromBlock + 1 > node.max_span)
             => \E j \in 1..Len(calls) :
                   /\ calls[j].branch = "bisect"
                   /\ calls[j].fromBlock = requests[k].fromBlock
                   /\ calls[j].toBlock = requests[k].toBlock
       /\ pc = "returned" =>
             /\ ExactlyTheLogs(results, inp.fromBlock, inp.toBlock)
             /\ num_blocks(inp) > node.max_span
                => \E j \in 1..Len(calls) : calls[j].branch = "bisect"

\* C2 happens: a call over more blocks than the node accepts has returned
\* after a rejected request was bisected
C2_Witness ==
    /\ pc = "returned" /\ RangeCall /\ ~inp.use_subsquid /\ NoFaults
    /\ node.max_span < w3.filter_block_range
    /\ num_blocks(inp) > node.max_span
    /\ \E j \in 1..Len(calls) : calls[j].branch = "bisect" /\ calls[j].exc = "rpc error"
    /\ Len(results) >= 2

RECURSIVE LogsOfParts(_)
\* the logs returned by the calls d[1], d[2], ..., concatenated in call order
LogsOfParts(d) == IF d = <<>> THEN <<>> ELSE Head(d).logs \o LogsOfParts(Tail(d))

\* the application has made a call for a range and then one call for each
\* part of a partition of the range, and all of them returned
PartitionAnswered ==
    /\ pc = "idle" /\ todo = <<>> /\ Len(done) >= 2
    /\ \A k \in 1..Len(done) : done[k].outcome = "returned"

\* C3: the logs get_logs returns for a range [a,b] are, as an ordered list
\* (and so as a multiset), the logs it returns for the contiguous sub-ranges
\* of any partition of [a,b], concatenated in ascending order.
C3_PartitionAgrees ==
    PartitionAnswered => done[1].logs = LogsOfParts(Tail(done))

\* C3 happens: a range and the three parts of a partition of it have been
\* answered, with logs, by a client that had to split the range
C3_Witness ==
    /\ PartitionAnswered
    /\ Len(done) = 4
    /\ Len(done[1].logs) >= 3
    /\ done[1].inp.toBlock - done[1].inp.fromBlock + 1 > w3.filter_block_range
    /\ done[4].inp.toBlock = done[1].inp.toBlock

\* C4: a call over more blocks than filter_block_range that reaches the RPC path
\* splits its range into chunks visited in ascending order: the first starts at
\* from_block, each next one starts right after the one before, every chunk
\* but the last holds exactly filter_block_range blocks, the last holds 1 to
\* filter_block_range blocks and ends at to_block.
C4_ChunksPartitionRange ==
    \A i \in 1..Len(calls) :
        LET c == calls[i]
            kids == Kids(i)
            last == IF kids = {} THEN 0 ELSE CHOOSE j \in kids : \A k \in kids : k <= j
            size(j) == calls[j].toBlock - calls[j].fromBlock + 1
        IN  /\ ( /\ c.blockHash = None
                 /\ w3.filter_block_range > 0
                 /\ c.toBlock - c.fromBlock + 1 > w3.filter_block_range
                 /\ c.branch # "subsquid" )
               => c.branch = "split"
            /\ c.branch = "split" =>
                 /\ c.toBlock - c.fromBlock + 1 > w3.filter_block_range
                 /\ \A j \in kids :
                      /\ calls[j].via = "chunk"
                      /\ 1 <= size(j) /\ size(j) <= w3.filter_block_range
                      /\ j # last => size(j) = w3.filter_block_range
                      /\ IF \E k \in kids : k < j
                         THEN LET prev == CHOOSE k \in kids :
                                              k < j /\ \A m \in kids : m < j => m <= k
                              IN  calls[j].fromBlock = calls[prev].toBlock + 1
                         ELSE calls[j].fromBlock = c.fromBlock
                 /\ pc = "returned" => (kids # {} /\ calls[last].toBlock = c.toBlock)

\* C4 happens: a range of three blocks was split under filter_block_range = 2
\* into the chunks [from, from + 1] and [to, to]
C4_Witness ==
    /\ pc = "returned" /\ RangeCall
    /\ w3.filter_block_range = 2
    /\ num_blocks(inp) = 3
    /\ calls[1].branch = "split"
    /\ Cardinality(Kids(1)) = 2
    /\ \E j \in Kids(1) :
          calls[j].fromBlock = inp.fromBlock /\ calls[j].toBlock = inp.fromBlock + 1
    /\ \E j \in Kids(1) :
          calls[j].fromBlock = inp.toBlock /\ calls[j].toBlock = inp.toBlock

\* the running call has ended: it returned or raised
Ended == pc \in {"returned", "raised"}

\* C5: a call over several blocks whose toBlockHash witness differs from the
\* hash the node has for to_block ends by raising ForkedBlock, without having
\* bisected the range and without a retry; it returns no logs.
C5_ForkedToBlockRaises ==
    ( /\ Ended /\ RangeCall /\ ~inp.use_subsquid
      /\ inp.fromBlock < inp.toBlock
      /\ num_blocks(inp) <= w3.filter_block_range
      /\ inp.fromBlockParentHash = None
      /\ inp.toBlockHash = ForkHash(inp.toBlock)
      /\ NoFaults /\ NoSpanLimit )
    => /\ pc = "raised" /\ error = "ForkedBlock"
       /\ \A j \in 1..Len(calls) : calls[j].branch # "bisect"
       /\ retries = 0

\* C6: a call whose fromBlockParentHash witness differs from the parentHash of
\* the node's block from_block ends by raising ForkedBlock, whatever the size
\* of the range: it never returns logs.
C6_ForkedFromBlockRaises ==
    ( /\ Ended /\ RangeCall /\ ~inp.use_subsquid
      /\ w3.filter_block_range > 0
      /\ inp.fromBlockParentHash = ForkHash(inp.fromBlock - 1)
      /\ inp.toBlockHash = None
      /\ NoFaults /\ NoSpanLimit )
    => pc = "raised" /\ error = "ForkedBlock"

\* C7: every sub-call made by chunking or by bisection carries a toBlockHash
\* only if it ends at the to_block of the top-level call and a
\* fromBlockParentHash only if it starts at its from_block.
C7_WitnessesOnlyAtBoundary ==
    \A j \in 1..Len(calls) :
        calls[j].via \in {"chunk", "left", "right"} =>
            /\ calls[j].toBlockHash # None => calls[j].toBlock = inp.toBlock
            /\ calls[j].fromBlockParentHash # None => calls[j].fromBlock = inp.fromBlock

\* to_block lies within unstable_blocks of latest_seen_block
NearHead == inp.toBlock > w3.latest_seen_block - w3.unstable_blocks

\* C8: a call whose to_block lies within unstable_blocks of latest_seen_block
\* fetches its logs block by block with eth_getLogs requests by blockHash,
\* never by a fromBlock/toBlock range.
C8_UnstableBlocksByHash ==
    ( /\ InCall /\ RangeCall /\ ~inp.use_subsquid /\ TruthfulWitnesses
      /\ inp.fromBlock < inp.toBlock
      /\ NearHead )
    => \A k \in GetLogsRequests : requests[k].blockHash # None

\* the call that continues after a partial archive answer starts at this block
NextBlock == IF Len(calls) >= 2 THEN calls[2].fromBlock ELSE top.fromBlock

C10_UnsupportedRaisesAtOnce ==
    w3.filter_block_range = 0 =>
        /\ requests = <<>>
        /\ results = <<>>
        /\ retries = 0
        /\ pc # "returned"
        /\ Len(calls) <= 1
        /\ pc = "raised" =>
              /\ error = "Unsupported"
              /\ Len(calls) = 1 /\ calls[1].branch = "unsupported"
        /\ \A k \in 1..Len(done) :
              done[k].outcome = "raised" /\ done[k].error = "Unsupported"

\* C10 happens: a call with a blockHash filter has raised the unsupported error
C10_Witness ==
    /\ w3.filter_block_range = 0
    /\ pc = "raised" /\ error = "Unsupported"
    /\ inp.blockHash # None
    /\ requests = <<>>

\* the eth_getLogs requests of the running call that name a block range
RangeRequests == {k \in GetLogsRequests : requests[k].blockHash = None}

\* C28: no eth_getLogs request by block range that get_logs sends spans more
\* than filter_block_range blocks, whether the call that sends it was made by
\* chunking, by bisection or as the continuation of a partial archive answer.
C28_RequestsWithinFilterRange ==
    \A k \in RangeRequests :
        /\ requests[k].fromBlock <= requests[k].toBlock
        /\ requests[k].toBlock - requests[k].fromBlock + 1 <= w3.filter_block_range

\* the archive answered block 0 of 0..3; the continuation over 1..3 was cut
\* in chunks of two, the chunk 1..2 was sent whole, then bisected
C28_Witness ==
    /\ pc = "returned"
    /\ w3.filter_block_range = 2
    /\ inp.fromBlock = 0 /\ inp.toBlock = 3
    /\ \E j \in 1..Len(calls) : calls[j].via = "archive" /\ calls[j].fromBlock = 1
    /\ \E j \in 1..Len(calls) : calls[j].via = "chunk"
    /\ \E j \in 1..Len(calls) : calls[j].via = "left"
    /\ \E k \in RangeRequests : requests[k].fromBlock = 1 /\ requests[k].toBlock = 2

\* C29: a call over 2 to filter_block_range blocks whose batched requests are
\* all answered and whose witnesses match returns the events of its one
\* eth_getLogs request: nothing is bisected and no other request is sent.
C29_BatchAnsweredReturnsAtOnce ==
    ( /\ Ended /\ RangeCall /\ ~inp.use_subsquid /\ TruthfulWitnesses
      /\ inp.fromBlock < inp.toBlock
      /\ num_blocks(inp) <= w3.filter_block_range
      /\ NoFaults /\ NoSpanLimit )
    => /\ pc = "returned"
       /\ Len(calls) = 1
       /\ \A j \in 1..Len(calls) : calls[j].branch # "bisect"
       /\ Cardinality(GetLogsRequests) = 1

\* the requests of the running call that get_filter sent to the archive
ArchiveRequests == {k \in 1..Len(requests) : requests[k].method = "subsquid"}

\* the branches of get_logs that ask the node
RpcBranches == {"single", "split", "batch", "bisect"}

\* C31: one top-level get_logs call asks the archive at most once, before any
\* request to the node. After the archive attempt, whether it answered the whole
\* range, a part of it or raised, every sub-call runs with use_subsquid = false.
\* When the attempt raises, the same call goes on with the RPC branch for the
\* whole range it was asked for, and no request leaves that range.
C31_ArchiveAskedOnce ==
    /\ Cardinality(ArchiveRequests) <= 1
    /\ ArchiveRequests \subseteq {1}
    /\ \A i \in 1..Len(calls) :
          calls[i].archive # "none" =>
              /\ calls[i].use_subsquid
              /\ \A j \in 1..Len(calls) : j # i => ~calls[j].use_subsquid
    /\ \A i \in 1..Len(calls) :
          (calls[i].archive = "raised" /\ pc # "raised") =>
              /\ calls[i].fromBlock = inp.fromBlock
              /\ calls[i].toBlock = inp.toBlock
              /\ calls[i].branch \in RpcBranches \cup {"subsquid"}
              /\ calls[i].branch = "subsquid" =>
                    /\ stack # <<>>
                    /\ top.id = i /\ ~top.use_subsquid
                    /\ top.fromBlock = inp.fromBlock /\ top.toBlock = inp.toBlock
                    /\ Dispatch(top) \in RpcBranches
              /\ \A k \in GetLogsRequests :
                    requests[k].blockHash = None =>
                        /\ inp.fromBlock <= requests[k].fromBlock
                        /\ requests[k].toBlock <= inp.toBlock
              /\ (pc = "returned" /\ TruthfulWitnesses) =>
                    ExactlyTheLogs(results, inp.fromBlock, inp.toBlock)

\* C31 happens: the archive raised, the range was cut in chunks for the node,
\* and the call returned the node's logs of the whole range
C31_Witness ==
    /\ pc = "returned" /\ RangeCall
    /\ Len(calls) >= 3
    /\ calls[1].archive = "raised" /\ calls[1].branch = "split"
    /\ Cardinality(ArchiveRequests) = 1
    /\ Cardinality(GetLogsRequests) >= 2
    /\ Len(results) >= 3

\* the calls that chunking or bisection made, by their ids
SplitCalls == {j \in 1..Len(calls) : calls[j].via \in {"chunk", "left", "right"}}

----------------------------------------------------------------------------
(* EthAdvanced.get_block_number and EthAdvanced.get_block: how the client keeps
   w3.latest_seen_block. Neither method takes a lock, so a thread can be
   suspended between the comparison and the assignment: each is a step. *)

\* threads of the application that may use one client at the same time
MaxThreads == 2
\* calls of get_block and get_block_number made in one behaviour
MaxBlockCalls == 3

\* the larger of two numbers
Max(a, b) == IF a >= b THEN a ELSE b

\* a thread that is in neither method
NotCalling ==
    [at |-> "idle", op |-> "none", ignore_latest_seen_block |-> FALSE, block_number |-> -1]

\* a thread whose request has been answered: the local block_number
\* (block["number"] in get_block) is set, the comparison comes next
Answered(op, ignore_latest_seen_block, block_number) ==
    [at |-> "compare", op |-> op, ignore_latest_seen_block |-> ignore_latest_seen_block,
     block_number |-> block_number]

\* faulty variant, not the code: the comparison with latest_seen_block is left out
ShouldStoreUnlessIgnored(t) == ~t.ignore_latest_seen_block

\* the conditions `not ignore_latest_seen_block and
\* self.w3.latest_seen_block < block_number` and
\* `self.w3.latest_seen_block < block["number"]`
ShouldStore(t) == ~t.ignore_latest_seen_block /\ w3.latest_seen_block < t.block_number

\* the history after a call of thread t returned its block number
Returned(t) ==
    [observed EXCEPT
        !.returned = Max(@, t.block_number),
        !.merging = IF t.ignore_latest_seen_block THEN @ ELSE Max(@, t.block_number)]

\* the threads after thread id sent the request of a call and got block number
\* n for an answer, or (n = -1) the node's error, which ends the call at once
Requested(id, op, ignore_latest_seen_block, n) ==
    [threads EXCEPT ![id] =
        IF n = -1 THEN NotCalling ELSE Answered(op, ignore_latest_seen_block, n)]

\* a thread that can start a call
CanCall(id) ==
    /\ id \in DOMAIN threads
    /\ threads[id].at = "idle"
    /\ observed.calls < MaxBlockCalls

\* get_block_number up to the answer of eth_blockNumber
get_block_number ==
    \E id \in 1..MaxThreads, ignore_latest_seen_block \in BOOLEAN, n \in Blocks \cup {-1} :
        /\ CanCall(id)
        /\ threads' = Requested(id, "get_block_number", ignore_latest_seen_block, n)
        /\ observed' = [observed EXCEPT !.calls = @ + 1]
        /\ UNCHANGED <<w3, getLogsVars, engine, builder, merged, batcher, probe, resolved>>

\* get_block up to the answer of eth_getBlockByNumber / eth_getBlockByHash
get_block ==
    \E id \in 1..MaxThreads, n \in Blocks \cup {-1} :
        /\ CanCall(id)
        /\ threads' = Requested(id, "get_block", FALSE, n)
        /\ observed' = [observed EXCEPT !.calls = @ + 1]
        /\ UNCHANGED <<w3, getLogsVars, engine, builder, merged, batcher, probe, resolved>>

\* the `if` of get_block_number and get_block: the attribute is read and
\* compared; the method returns when there is nothing to store
Compare ==
    \E id \in DOMAIN threads :
        /\ threads[id].at = "compare"
        /\ IF ShouldStore(threads[id])
           THEN /\ threads' = [threads EXCEPT ![id].at = "store"]
                /\ UNCHANGED observed
           ELSE /\ threads' = [threads EXCEPT ![id] = NotCalling]
                /\ observed' = Returned(threads[id])
        /\ UNCHANGED <<w3, getLogsVars, engine, builder, merged, batcher, probe, resolved>>

\* the assignment `self.w3.latest_seen_block = block_number`, and the return
Store ==
    \E id \in DOMAIN threads :
        /\ threads[id].at = "store"
        /\ w3' = [w3 EXCEPT !.latest_seen_block = threads[id].block_number]
        /\ threads' = [threads EXCEPT ![id] = NotCalling]
        /\ observed' = [Returned(threads[id]) EXCEPT
                           !.decreased = @ \/ threads[id].block_number < w3.latest_seen_block]
        /\ UNCHANGED <<getLogsVars, engine, builder, merged, batcher, probe, resolved>>

\* get_logs is not called
NoGetLogs ==
    /\ node = Unused /\ todo = Unused /\ done = Unused /\ pc = Unused
    /\ inp = Unused /\ stack = Unused /\ results = Unused /\ error = Unused
    /\ retries = Unused /\ calls = Unused /\ requests = Unused

\* a client after construction, whose latest_seen_block is the head the node
\* reported then, and the threads that share it
InitClient ==
    /\ \E head \in Blocks :
        /\ w3 = [filter_block_range |-> 1, latest_seen_block |-> head,
                 unstable_blocks |-> DefaultUnstableBlocks, should_retry |-> TRUE,
                 subsquid_available |-> FALSE]
        /\ observed = [construction |-> head, calls |-> 0, returned |-> -1,
                       merging |-> -1, decreased |-> FALSE]
    /\ \E n \in 1..MaxThreads : threads = [id \in 1..n |-> NotCalling]
    /\ NoGetLogs
    /\ engine = Unused
    /\ builder = Unused
    /\ merged = Unused
    /\ batcher = Unused
    /\ probe = Unused
    /\ resolved = Unused

NextClient ==
    \/ get_block_number
    \/ get_block
    \/ Compare
    \/ Store

SpecClient == InitClient /\ [][NextClient]_vars

\* only one thread uses the client
SingleThread == DOMAIN threads = {1}
\* no thread is inside get_block or get_block_number
Quiescent == \A id \in DOMAIN threads : threads[id].at = "idle"

\* C11: on a client used by one thread, latest_seen_block never decreases and is
\* always the maximum of its value at construction and the block numbers that
\* get_block returned and that get_block_number returned to calls made without
\* ignore_latest_seen_block (such a call returns its number and leaves
\* latest_seen_block alone).
C11_MaxMergeUnlessIgnored ==
    SingleThread =>
        /\ ~observed.decreased
        /\ w3.latest_seen_block = Max(observed.construction, observed.merging)

\* one thread has merged a higher block number, and a call with
\* ignore_latest_seen_block has returned a number higher still
C11_Witness ==
    /\ SingleThread /\ Quiescent
    /\ observed.merging > observed.construction
    /\ observed.returned > observed.merging

\* C11 as stated: on a client used by one thread, after any sequence of
\* get_block and get_block_number calls latest_seen_block is the maximum of its
\* value at construction and every block number those calls returned.
C11_MaxOfEveryReturned ==
    (SingleThread /\ Quiescent) =>
        /\ ~observed.decreased
        /\ w3.latest_seen_block = Max(observed.construction, observed.returned)

\* C12: when several threads call get_block / get_block_number on one client,
\* latest_seen_block never decreases and, once every call has returned, is the
\* maximum block number that any thread merged.
C12_AtomicMaxMerge ==
    /\ ~observed.decreased
    /\ Quiescent => w3.latest_seen_block = Max(observed.construction, observed.merging)


----------------------------------------------------------------------------
(* exponential_retry, and the methods that hand it the caller's no_retry *)

\* failed attempts after which the model lets an operation fail no more
MaxRetries == 8

\* the errors a wrapped operation raises: a decoded revert, an error whose
\* message contains "unknown block", and any other error
Errors == {"ContractLogicError", "unknown block", "timeout"}

\* the methods that wrap their request in exponential_retry at each call
RetryingMethods == {"call", "get_block", "get_block_number", "get_logs_inner"}

\* faulty variant, not the code: a client that retries ignores the caller's no_retry
NoRetryOnlyWithoutShouldRetry(func_name, no_retry, transaction_no_retry) ==
    ~w3.should_retry

\* the no_retry that inner() receives: call takes it from the transaction's
\* "no_retry" entry when there is one, and every method forces it when the
\* client does not retry
NoRetryPassed(func_name, no_retry, transaction_no_retry) ==
    LET given == IF func_name = "call" /\ transaction_no_retry # "absent"
                 THEN transaction_no_retry = "true"
                 ELSE no_retry
    IN  given \/ ~w3.should_retry

\* faulty variant, not the code: the exponent is retries, one doubling ahead
wait_for_doubled(retries_) ==
    IF retries_ = 0 THEN 0 ELSE IF retries_ < 6 THEN 2 ^ retries_ ELSE 30

\* the seconds slept after a failed attempt that found the counter at retries_
wait_for(retries_) ==
    IF retries_ = 0 THEN 0 ELSE IF retries_ < 6 THEN 2 ^ (retries_ - 1) ELSE 30

\* faulty variant, not the code: a decoded revert is retried like any error
RaisesOnlyUnknownBlock(e, retries_) ==
    e = "unknown block" /\ retries_ >= UnknownBlockRetries

\* faulty variant, not the code: the "unknown block" test is off by one
RaisesUnknownBlockLate(e, retries_) ==
    \/ e = "ContractLogicError"
    \/ e = "unknown block" /\ retries_ > UnknownBlockRetries

\* faulty variant, not the code: the loop gives up after five failed attempts
RaisesAfterFiveRetries(e, retries_) ==
    \/ e = "ContractLogicError"
    \/ e = "unknown block" /\ retries_ >= UnknownBlockRetries
    \/ retries_ >= 5

\* the two `raise` of the except block
Raises(e, retries_) ==
    \/ e = "ContractLogicError"
    \/ e = "unknown block" /\ retries_ >= UnknownBlockRetries

\* what the wrapped operation may return when it succeeds
Values == {"first", "second"}

\* the engine before any wrapped operation was called
NotEntered ==
    [at |-> "idle", func_name |-> "none", given |-> FALSE, transaction |-> "absent",
     no_retry |-> FALSE, retries |-> 0, invocations |-> 0, errors |-> <<>>,
     waits |-> <<>>, raised |-> "none", value |-> "none", result |-> "none"]

\* a caller calls one of the methods: inner() is entered with the no_retry the
\* method passes on
Enter ==
    \E func_name \in RetryingMethods, no_retry \in BOOLEAN,
       transaction_no_retry \in {"absent", "true", "false"} :
        /\ engine.at # "running"
        /\ func_name # "call" => transaction_no_retry = "absent"
        /\ engine' = [NotEntered EXCEPT
                         !.at = "running", !.func_name = func_name,
                         !.given = no_retry, !.transaction = transaction_no_retry,
                         !.no_retry = NoRetryPassed(func_name, no_retry,
                                                    transaction_no_retry)]
        /\ UNCHANGED <<w3, getLogsVars, threads, observed, builder, merged, batcher, probe, resolved>>

\* `if no_retry: return func(*args, **kwargs)`
InvokeOnce ==
    \E outcome \in Errors \cup Values :
        /\ engine.at = "running"
        /\ engine.no_retry
        /\ engine' = IF outcome \in Values
                      THEN [engine EXCEPT !.invocations = @ + 1, !.value = outcome,
                                          !.result = outcome, !.at = "returned"]
                      ELSE [engine EXCEPT !.invocations = @ + 1,
                                          !.errors = Append(@, outcome),
                                          !.raised = outcome, !.at = "raised"]
        /\ UNCHANGED <<w3, getLogsVars, threads, observed, builder, merged, batcher, probe, resolved>>

\* one pass of the `while True` loop: func is invoked; its error is raised or
\* it is slept on, after which the loop invokes func again
InvokeInLoop ==
    \E outcome \in Errors \cup Values :
        /\ engine.at = "running"
        /\ ~engine.no_retry
        /\ (outcome \notin Values /\ ~Raises(outcome, engine.retries)) =>
              engine.retries < MaxRetries
        /\ engine' =
              IF outcome \in Values
              THEN [engine EXCEPT !.invocations = @ + 1, !.value = outcome,
                                  !.result = outcome, !.at = "returned"]
              ELSE IF Raises(outcome, engine.retries)
              THEN [engine EXCEPT !.invocations = @ + 1,
                                  !.errors = Append(@, outcome),
                                  !.raised = outcome, !.at = "raised"]
              ELSE [engine EXCEPT !.invocations = @ + 1,
                                  !.errors = Append(@, outcome),
                                  !.waits = Append(@, wait_for(engine.retries)),
                                  !.retries = @ + 1]
        /\ UNCHANGED <<w3, getLogsVars, threads, observed, builder, merged, batcher, probe, resolved>>

\* clients built with and without should_retry, before any call
InitRetry ==
    /\ w3 \in [filter_block_range : {1}, latest_seen_block : {0},
               unstable_blocks : {DefaultUnstableBlocks}, should_retry : BOOLEAN,
               subsquid_available : {FALSE}]
    /\ engine = NotEntered
    /\ NoGetLogs
    /\ threads = Unused
    /\ observed = Unused
    /\ builder = Unused
    /\ merged = Unused
    /\ batcher = Unused
    /\ probe = Unused
    /\ resolved = Unused

NextRetry ==
    \/ Enter
    \/ InvokeOnce
    \/ InvokeInLoop

SpecRetry == InitRetry /\ [][NextRetry]_vars

\* inner() runs to its end: func returns or raises, a sleep lasts at most 30
\* seconds, and nothing in the loop waits for another thread
SpecRetryFair == SpecRetry /\ WF_vars(InvokeOnce) /\ WF_vars(InvokeInLoop)


\* the caller asks for no retry: through call's transaction entry, or through
\* the no_retry argument without a transaction entry that says otherwise
PassesNoRetry ==
    /\ engine.at # "idle"
    /\ \/ engine.transaction = "true"
       \/ engine.given /\ engine.transaction # "false"

\* every attempt made so far failed, with an error that says "unknown block"
OnlyUnknownBlock ==
    /\ engine.errors # <<>>
    /\ Len(engine.errors) = engine.invocations
    /\ \A k \in 1..Len(engine.errors) : engine.errors[k] = "unknown block"

\* the backoff schedule 0, 1, 2, 4, 8, 16, 30, 30, ... at index k, from zero
Schedule(k) == IF k <= 5 THEN <<0, 1, 2, 4, 8, 16>>[k + 1] ELSE 30

\* every error of the run so far is one the loop neither raises at once nor
\* counts towards a raise: neither a revert nor an "unknown block"
OnlyTransient ==
    \A k \in 1..Len(engine.errors) : engine.errors[k] = "timeout"

\* C21: with no_retry=false a transient error is retried however many came
\* before it: the loop never raises one, what it returns is the value of the
\* one invocation that succeeded, made after every failed one, and under the
\* loop's progress a run whose operation stops failing comes to its end.
C21_TransientRetriedUntilSuccess ==
    /\ [](engine.at = "raised" /\ ~engine.no_retry => engine.raised # "timeout")
    /\ [](engine.at = "running" /\ ~engine.no_retry /\ OnlyTransient =>
              engine.retries = Len(engine.errors))
    /\ [](engine.at = "returned" /\ ~engine.no_retry =>
              /\ engine.result = engine.value
              /\ engine.result \in Values
              /\ engine.invocations = Len(engine.errors) + 1)
    /\ (engine.at = "running" /\ ~engine.no_retry) ~> (engine.at # "running")

\* the loop returned the value of its ninth invocation, after eight transient
\* failures
C21_Witness ==
    /\ engine.at = "returned"
    /\ ~engine.no_retry
    /\ Len(engine.errors) = MaxRetries
    /\ OnlyTransient
    /\ engine.result = "second"

C18_RevertPropagatesAtOnce ==
    \A k \in 1..Len(engine.errors) :
        engine.errors[k] = "ContractLogicError" =>
            /\ k = Len(engine.errors)
            /\ engine.invocations = k
            /\ Len(engine.waits) = k - 1
            /\ engine.at = "raised"
            /\ engine.raised = "ContractLogicError"

\* a revert reached the caller after at least two failed and retried attempts
C18_Witness ==
    /\ ~engine.no_retry
    /\ engine.at = "raised" /\ engine.raised = "ContractLogicError"
    /\ Len(engine.errors) >= 3

\* C19: an operation that fails on every attempt with an "unknown block" error
\* is invoked at most 4 times, is retried (slept on) at most 3 times, and the
\* loop ends it at the 4th failure by raising that attempt's error.
C19_UnknownBlockFailsAfterThree ==
    OnlyUnknownBlock =>
        /\ engine.invocations <= 4
        /\ Len(engine.waits) <= 3
        /\ engine.invocations = 4 =>
              engine.at = "raised" /\ engine.raised = "unknown block"
        /\ (engine.at = "raised" /\ ~engine.no_retry) => engine.invocations = 4

\* the 4th "unknown block" in a row has been raised by the loop
C19_Witness ==
    /\ OnlyUnknownBlock /\ ~engine.no_retry
    /\ engine.at = "raised" /\ engine.invocations = 4

\* C20: the wait after the failed attempt k (from zero), which is the wait
\* before attempt k + 1, is 0, 1, 2, 4, 8, 16 seconds for k = 0..5 and 30 seconds
\* for k >= 6; nothing is waited before attempt 0 and no wait exceeds 30 seconds.
C20_WaitAfterFailedAttempt ==
    /\ Len(engine.waits) <= engine.invocations
    /\ \A k \in 1..Len(engine.waits) :
          /\ engine.waits[k] = Schedule(k - 1)
          /\ engine.waits[k] <= 30

\* the loop has slept 8 times, the last two for the capped 30 seconds
C20_Witness ==
    /\ Len(engine.waits) >= 8
    /\ engine.waits[7] = 30 /\ engine.waits[8] = 30

\* C20 as stated: the wait before attempt k (from zero, attempt 0 being the
\* first invocation) is 0, 1, 2, 4, 8, 16 seconds for k = 0..5 and 30 seconds for
\* k >= 6. (The k-th sleep of the loop is the wait before attempt k.)
C20_WaitBeforeAttempt ==
    \A k \in 1..Len(engine.waits) : engine.waits[k] = Schedule(k)


----------------------------------------------------------------------------
(* MultiCall.merge_state_overwrites. A StateOverride is a dict from address to
   an account override, itself a dict with any of the keys balance, nonce,
   code, state and stateDiff: dicts are functions, a key is in the dict when
   it is in the function's domain. *)

\* overrides in a list handed to merge_state_overwrites
MaxOverrides == 3

\* the AssertionError of a failed assert, as the outcome of the merge
AssertionError == [error |-> "AssertionError"]

\* the dict d after d[key] = value
Put(d, key, value) ==
    [k \in DOMAIN d \cup {key} |-> IF k = key THEN value ELSE d[k]]

\* `if key in overwrite: assert key not in prev_overwrite;
\*  prev_overwrite[key] = overwrite[key]`, for balance, nonce and code
SetOnce(prev_overwrite, overwrite, key) ==
    IF prev_overwrite = AssertionError \/ key \notin DOMAIN overwrite THEN prev_overwrite
    ELSE IF key \in DOMAIN prev_overwrite THEN AssertionError
    ELSE Put(prev_overwrite, key, overwrite[key])

\* `if "state" in overwrite: ...`
SetState(prev_overwrite, overwrite) ==
    IF prev_overwrite = AssertionError \/ "state" \notin DOMAIN overwrite THEN prev_overwrite
    ELSE IF "state" \in DOMAIN prev_overwrite \/ "stateDiff" \in DOMAIN prev_overwrite
         THEN AssertionError
    ELSE Put(prev_overwrite, "state", overwrite["state"])

\* faulty variant, not the code: a slot already written is overwritten unchecked
SetStateDiffLastWins(prev_overwrite, overwrite) ==
    IF prev_overwrite = AssertionError \/ "stateDiff" \notin DOMAIN overwrite THEN prev_overwrite
    ELSE IF "state" \in DOMAIN prev_overwrite THEN AssertionError
    ELSE IF "stateDiff" \notin DOMAIN prev_overwrite
         THEN Put(prev_overwrite, "stateDiff", overwrite["stateDiff"])
    ELSE LET prev_state_diff == prev_overwrite["stateDiff"]
             state_diff == overwrite["stateDiff"]
         IN  Put(prev_overwrite, "stateDiff",
                 [slot \in DOMAIN prev_state_diff \cup DOMAIN state_diff |->
                     IF slot \in DOMAIN state_diff THEN state_diff[slot]
                     ELSE prev_state_diff[slot]])

\* `if "stateDiff" in overwrite: ...`: the slots are merged one by one, a slot
\* written before must have the same value
SetStateDiff(prev_overwrite, overwrite) ==
    IF prev_overwrite = AssertionError \/ "stateDiff" \notin DOMAIN overwrite THEN prev_overwrite
    ELSE IF "state" \in DOMAIN prev_overwrite THEN AssertionError
    ELSE IF "stateDiff" \notin DOMAIN prev_overwrite
         THEN Put(prev_overwrite, "stateDiff", overwrite["stateDiff"])
    ELSE LET prev_state_diff == prev_overwrite["stateDiff"]
             state_diff == overwrite["stateDiff"]
         IN  IF \E slot \in DOMAIN state_diff \cap DOMAIN prev_state_diff :
                    prev_state_diff[slot] # state_diff[slot]
             THEN AssertionError
             ELSE Put(prev_overwrite, "stateDiff",
                      [slot \in DOMAIN prev_state_diff \cup DOMAIN state_diff |->
                          IF slot \in DOMAIN state_diff THEN state_diff[slot]
                          ELSE prev_state_diff[slot]])

\* the body of the loop for an address that merged_overwrite already holds
MergeAccount(prev_overwrite, overwrite) ==
    SetStateDiff(
        SetState(
            SetOnce(SetOnce(SetOnce(prev_overwrite, overwrite, "balance"),
                            overwrite, "nonce"),
                    overwrite, "code"),
            overwrite),
        overwrite)

RECURSIVE MergeItems(_, _, _)
\* `for contract_address, overwrite in overwrites.items()`, over the addresses
\* still to visit: the first contributor of an address is copied as it is
MergeItems(merged_overwrite, overwrites, addresses) ==
    IF merged_overwrite = AssertionError \/ addresses = {} THEN merged_overwrite
    ELSE LET contract_address == CHOOSE a \in addresses : TRUE
             after ==
                 IF contract_address \notin DOMAIN merged_overwrite
                 THEN overwrites[contract_address]
                 ELSE MergeAccount(merged_overwrite[contract_address],
                                   overwrites[contract_address])
         IN  IF after = AssertionError THEN AssertionError
             ELSE MergeItems(Put(merged_overwrite, contract_address, after),
                             overwrites, addresses \ {contract_address})

RECURSIVE MergeFrom(_, _)
\* `for overwrites in state_overwrites`, from merged_overwrite on
MergeFrom(merged_overwrite, state_overwrites) ==
    IF merged_overwrite = AssertionError \/ state_overwrites = <<>> THEN merged_overwrite
    ELSE LET overwrites == Head(state_overwrites)
         IN  IF overwrites = None
             THEN MergeFrom(merged_overwrite, Tail(state_overwrites))
             ELSE MergeFrom(MergeItems(merged_overwrite, overwrites, DOMAIN overwrites),
                            Tail(state_overwrites))

\* the empty dict
EmptyDict == [k \in {} |-> None]

merge_state_overwrites(state_overwrites) ==
    IF \A i \in 1..Len(state_overwrites) : state_overwrites[i] = None
    THEN None
    ELSE MergeFrom(EmptyDict, state_overwrites)


\* the overrides the calls of the model carry: for address A a balance (two
\* values), a nonce with a code, a full state, stateDiffs that agree and that
\* disagree on a slot, an override with both state and stateDiff; and one for
\* two addresses
StateOverrides ==
    {None,
     [A |-> [balance |-> 1]],
     [A |-> [balance |-> 2]],
     [A |-> [nonce |-> 1, code |-> 1]],
     [A |-> [state |-> [x |-> 1]]],
     [A |-> [stateDiff |-> [x |-> 1]]],
     [A |-> [stateDiff |-> [x |-> 2]]],
     [A |-> [stateDiff |-> [x |-> 1, y |-> 1]]],
     [A |-> [state |-> [x |-> 1], stateDiff |-> [x |-> 1]]],
     [A |-> [stateDiff |-> [y |-> 1]], B |-> [balance |-> 1]]}

\* the lists of overrides handed to merge_state_overwrites
OverrideLists == UNION {[1..n -> StateOverrides] : n \in 1..MaxOverrides}

\* the result of a merge that has not been made
NotMerged == [pending |-> TRUE]

\* the list with override o inserted before position j
Inserted(list, o, j) ==
    [k \in 1..(Len(list) + 1) |->
        IF k < j THEN list[k] ELSE IF k = j THEN o ELSE list[k - 1]]

\* merge_state_overwrites is applied to the list
MergeList ==
    /\ merged.result = NotMerged
    /\ merged' = [merged EXCEPT !.result = merge_state_overwrites(merged.state_overwrites)]
    /\ UNCHANGED <<w3, getLogsVars, threads, observed, engine, builder, batcher, probe, resolved>>

\* merge_state_overwrites is applied to the list in another order
MergePermuted ==
    \E p \in Permutations(DOMAIN merged.state_overwrites) :
        LET permuted == [k \in DOMAIN merged.state_overwrites |->
                            merged.state_overwrites[p[k]]]
        IN  /\ merged.result # NotMerged
            /\ merged.how = "once"
            /\ merged' = [merged EXCEPT !.how = "permuted", !.again_on = permuted,
                                        !.again = merge_state_overwrites(permuted)]
            /\ UNCHANGED <<w3, getLogsVars, threads, observed, engine, builder, batcher, probe, resolved>>

\* merge_state_overwrites is applied to the list with one of its overrides
\* in it a second time
MergeRepeated ==
    \E i \in DOMAIN merged.state_overwrites, j \in 1..(Len(merged.state_overwrites) + 1) :
        LET repeated == Inserted(merged.state_overwrites, merged.state_overwrites[i], j)
        IN  /\ merged.result # NotMerged
            /\ merged.how = "once"
            /\ merged' = [merged EXCEPT !.how = "repeated", !.again_on = repeated,
                                        !.repeated = merged.state_overwrites[i],
                                        !.again = merge_state_overwrites(repeated)]
            /\ UNCHANGED <<w3, getLogsVars, threads, observed, engine, builder, batcher, probe, resolved>>

InitMerge ==
    /\ \E list \in OverrideLists :
          merged = [state_overwrites |-> list, result |-> NotMerged, how |-> "once",
                    again_on |-> <<>>, repeated |-> None, again |-> NotMerged]
    /\ w3 = Unused
    /\ NoGetLogs
    /\ threads = Unused
    /\ observed = Unused
    /\ engine = Unused
    /\ builder = Unused
    /\ batcher = Unused
    /\ probe = Unused
    /\ resolved = Unused

NextMerge ==
    \/ MergeList
    \/ MergePermuted
    \/ MergeRepeated

SpecMerge == InitMerge /\ [][NextMerge]_vars

\* the values two overrides give to one address differ in a field or a slot
Differ(o1, o2) ==
    \/ \E key \in (DOMAIN o1 \cap DOMAIN o2) \ {"stateDiff"} : o1[key] # o2[key]
    \/ /\ "stateDiff" \in DOMAIN o1 \cap DOMAIN o2
       /\ \E slot \in DOMAIN o1["stateDiff"] \cap DOMAIN o2["stateDiff"] :
              o1["stateDiff"][slot] # o2["stateDiff"][slot]

\* two overrides of the list give different values for the same field or slot
\* of an address
Conflicting(list) ==
    \E i, j \in DOMAIN list :
        /\ i < j /\ list[i] # None /\ list[j] # None
        /\ \E a \in DOMAIN list[i] \cap DOMAIN list[j] : Differ(list[i][a], list[j][a])

\* no override of the list gives an address both state and stateDiff
NoStateWithStateDiff(list) ==
    \A i \in DOMAIN list :
        list[i] # None =>
            \A a \in DOMAIN list[i] : ~({"state", "stateDiff"} \subseteq DOMAIN list[i][a])

\* the override holds nothing but stateDiff entries
OnlyStateDiff(o) == o = None \/ \A a \in DOMAIN o : DOMAIN o[a] \subseteq {"stateDiff"}

CombinesStateWithStateDiff(list, a) ==
    /\ \E i \in DOMAIN list :
          list[i] # None /\ a \in DOMAIN list[i] /\ "state" \in DOMAIN list[i][a]
    /\ \E i \in DOMAIN list :
          list[i] # None /\ a \in DOMAIN list[i] /\ "stateDiff" \in DOMAIN list[i][a]

\* C35: the override merge_state_overwrites returns never holds both a state
\* and a stateDiff entry for one address: a list whose overrides would combine
\* the two for an address, one override with both included, raises.
C35_StateExcludesStateDiff ==
    merged.result # NotMerged =>
        /\ merged.result \notin {None, AssertionError} =>
              \A a \in DOMAIN merged.result :
                  ~({"state", "stateDiff"} \subseteq DOMAIN merged.result[a])
        /\ (\E a \in {"A", "B"} : CombinesStateWithStateDiff(merged.state_overwrites, a))
              => merged.result = AssertionError

----------------------------------------------------------------------------
(* merge_state_overwrites on objects. The dicts handed to it are objects the
   caller keeps: an account override is the object accounts[id], the dict
   under its "state" or "stateDiff" key is the object slots[id], and an
   override maps an address to the id of an account override. copy.deepcopy
   makes new objects, an assignment stores the id it is given, and a store
   into a dict changes the object for every holder of its id. In this part
   `merged` holds the objects, the list handed over and the outcomes. *)

\* the state and stateDiff dicts the caller holds
SlotDicts == <<[x |-> 1], [x |-> 2], [y |-> 1], [x |-> 1, y |-> 1]>>

\* the account overrides the caller holds; state and stateDiff name a dict of
\* SlotDicts, which two account overrides may share
AccountDicts ==
    <<[balance |-> 1], [nonce |-> 1, code |-> 1], [state |-> 1], [stateDiff |-> 1],
      [stateDiff |-> 2], [stateDiff |-> 3], [balance |-> 2, stateDiff |-> 4]>>

\* the overrides the caller holds: the global one and those of the calls are
\* drawn from them, the same object for several calls included
HeldOverrides ==
    {None} \cup {[A |-> id] : id \in DOMAIN AccountDicts} \cup {[A |-> 6, B |-> 1]}

\* the lists [global_state_override] + state_overwrites
HeldLists == UNION {[1..n -> HeldOverrides] : n \in 1..MaxOverrides}

\* the objects before any merge
Objects ==
    [accounts |-> AccountDicts, slots |-> SlotDicts, merged_overwrite |-> EmptyDict,
     ref |-> 0, ok |-> TRUE]

\* copy.deepcopy of a state or stateDiff dict: a new object, named by `ref`
DeepCopySlots(st, id) ==
    [st EXCEPT !.slots = Append(@, st.slots[id]), !.ref = Len(st.slots) + 1]

\* faulty variant, not the code: the first override of an address is stored itself, not a copy of it
StoredWithoutCopy(st, id) == [st EXCEPT !.ref = id]

\* copy.deepcopy(overwrite): a new account override whose state and stateDiff
\* are new dicts
DeepCopy(st, id) ==
    LET overwrite == st.accounts[id]
        s1 == IF "state" \in DOMAIN overwrite
              THEN DeepCopySlots(st, overwrite["state"]) ELSE st
        s2 == IF "stateDiff" \in DOMAIN overwrite
              THEN DeepCopySlots(s1, overwrite["stateDiff"]) ELSE s1
        copy == [k \in DOMAIN overwrite |->
                    IF k = "state" THEN s1.ref
                    ELSE IF k = "stateDiff" THEN s2.ref
                    ELSE overwrite[k]]
    IN  [s2 EXCEPT !.accounts = Append(@, copy), !.ref = Len(s2.accounts) + 1]

\* `if key in overwrite: assert key not in prev_overwrite;
\*  prev_overwrite[key] = overwrite[key]`, for balance, nonce, code and, with
\* its second assert, state: the object prev_overwrite is stored into
AssignOnce(st, prev_overwrite, overwrite, key) ==
    IF ~st.ok \/ key \notin DOMAIN st.accounts[overwrite] THEN st
    ELSE IF \/ key \in DOMAIN st.accounts[prev_overwrite]
            \/ key = "state" /\ "stateDiff" \in DOMAIN st.accounts[prev_overwrite]
         THEN [st EXCEPT !.ok = FALSE]
    ELSE [st EXCEPT !.accounts[prev_overwrite] =
                        Put(@, key, st.accounts[overwrite][key])]

RECURSIVE AssignSlots(_, _, _, _)
\* `for slot, value in overwrite["stateDiff"].items(): assert ...;
\*  prev_state_diff[slot] = value`, over the slots still to visit
AssignSlots(st, prev_state_diff, state_diff, slots_) ==
    IF ~st.ok \/ slots_ = {} THEN st
    ELSE LET slot == CHOOSE k \in slots_ : TRUE
             value == st.slots[state_diff][slot]
         IN  IF /\ slot \in DOMAIN st.slots[prev_state_diff]
                /\ st.slots[prev_state_diff][slot] # value
             THEN [st EXCEPT !.ok = FALSE]
             ELSE AssignSlots([st EXCEPT !.slots[prev_state_diff] = Put(@, slot, value)],
                              prev_state_diff, state_diff, slots_ \ {slot})

\* `if "stateDiff" in overwrite: ...`: a deep copy of the dict is stored, or
\* the dict prev_overwrite holds is stored into
AssignStateDiff(st, prev_overwrite, overwrite) ==
    IF ~st.ok \/ "stateDiff" \notin DOMAIN st.accounts[overwrite] THEN st
    ELSE IF "state" \in DOMAIN st.accounts[prev_overwrite] THEN [st EXCEPT !.ok = FALSE]
    ELSE IF "stateDiff" \notin DOMAIN st.accounts[prev_overwrite]
         THEN LET copied == DeepCopySlots(st, st.accounts[overwrite]["stateDiff"])
              IN  [copied EXCEPT !.accounts[prev_overwrite] = Put(@, "stateDiff", copied.ref)]
    ELSE AssignSlots(st, st.accounts[prev_overwrite]["stateDiff"],
                     st.accounts[overwrite]["stateDiff"],
                     DOMAIN st.slots[st.accounts[overwrite]["stateDiff"]])

\* the body of the loop for an address that merged_overwrite already holds
AssignAccount(st, prev_overwrite, overwrite) ==
    AssignStateDiff(
        AssignOnce(
            AssignOnce(
                AssignOnce(AssignOnce(st, prev_overwrite, overwrite, "balance"),
                           prev_overwrite, overwrite, "nonce"),
                prev_overwrite, overwrite, "code"),
            prev_overwrite, overwrite, "state"),
        prev_overwrite, overwrite)

RECURSIVE AssignItems(_, _, _)
\* `for contract_address, overwrite in overwrites.items()`, over the addresses
\* still to visit
AssignItems(st, overwrites, addresses) ==
    IF ~st.ok \/ addresses = {} THEN st
    ELSE LET contract_address == CHOOSE a \in addresses : TRUE
             after ==
                 IF contract_address \notin DOMAIN st.merged_overwrite
                 THEN LET copied == DeepCopy(st, overwrites[contract_address])
                      IN  [copied EXCEPT !.merged_overwrite =
                                             Put(@, contract_address, copied.ref)]
                 ELSE AssignAccount(st, st.merged_overwrite[contract_address],
                                    overwrites[contract_address])
         IN  AssignItems(after, overwrites, addresses \ {contract_address})

RECURSIVE AssignFrom(_, _)
\* `for overwrites in state_overwrites`
AssignFrom(st, state_overwrites) ==
    IF ~st.ok \/ state_overwrites = <<>> THEN st
    ELSE LET overwrites == Head(state_overwrites)
         IN  IF overwrites = None
             THEN AssignFrom(st, Tail(state_overwrites))
             ELSE AssignFrom(AssignItems(st, overwrites, DOMAIN overwrites),
                             Tail(state_overwrites))

\* the contents of an account override
AccountValue(st, id) ==
    [k \in DOMAIN st.accounts[id] |->
        IF k \in {"state", "stateDiff"} THEN st.slots[st.accounts[id][k]]
        ELSE st.accounts[id][k]]

\* the contents of an override
OverrideValue(st, overwrites) ==
    IF overwrites = None THEN None
    ELSE [a \in DOMAIN overwrites |-> AccountValue(st, overwrites[a])]

\* merge_state_overwrites(state_overwrites) on the objects st: the objects
\* after the call, and the contents of what it returns
MergedObjects(st, state_overwrites) ==
    IF \A i \in 1..Len(state_overwrites) : state_overwrites[i] = None
    THEN [objects |-> st, returned |-> None]
    ELSE LET after == AssignFrom([st EXCEPT !.merged_overwrite = EmptyDict, !.ok = TRUE],
                                 state_overwrites)
         IN  [objects |-> after,
              returned |-> IF after.ok THEN OverrideValue(after, after.merged_overwrite)
                           ELSE AssertionError]

\* the list of a slice: [global_state_override] + state_overwrites[lo - 1 : hi]
SliceList(list, lo, hi) == <<list[1]>> \o SubSeq(list, lo + 1, hi + 1)

\* merge_state_overwrites is applied to the whole list
MergeObjects ==
    /\ merged.how = "none"
    /\ LET got == MergedObjects(merged.objects, merged.state_overwrites)
       IN  merged' = [merged EXCEPT !.how = "once", !.objects = got.objects,
                                    !.merged_list = merged.state_overwrites,
                                    !.result = got.returned]
    /\ UNCHANGED <<w3, getLogsVars, threads, observed, engine, builder, batcher, probe, resolved>>

\* _inner_call merges the overrides of another slice of the same builder
MergeSlice ==
    \E lo \in 1..MaxOverrides, hi \in 1..MaxOverrides :
        /\ merged.how = "once"
        /\ lo <= hi /\ hi < Len(merged.state_overwrites)
        /\ LET list == SliceList(merged.state_overwrites, lo, hi)
               got == MergedObjects(merged.objects, list)
           IN  merged' = [merged EXCEPT !.how = "again", !.objects = got.objects,
                                        !.merged_list = list,
                                        !.result = got.returned]
        /\ UNCHANGED <<w3, getLogsVars, threads, observed, engine, builder, batcher, probe, resolved>>

InitObjects ==
    /\ \E list \in HeldLists :
          merged = [state_overwrites |-> list, objects |-> Objects, how |-> "none",
                    merged_list |-> <<>>, result |-> NotMerged]
    /\ w3 = Unused
    /\ NoGetLogs
    /\ threads = Unused
    /\ observed = Unused
    /\ engine = Unused
    /\ builder = Unused
    /\ batcher = Unused
    /\ probe = Unused
    /\ resolved = Unused

NextObjects ==
    \/ MergeObjects
    \/ MergeSlice

SpecObjects == InitObjects /\ [][NextObjects]_vars

\* the contents the caller's overrides had before any merge
HeldValues(list) == [k \in DOMAIN list |-> OverrideValue(Objects, list[k])]

\* C36: merge_state_overwrites leaves its inputs unchanged. After any merge,
\* returning or raising, every account override and every state and stateDiff
\* dict the caller holds has the contents it had before, so a merge for
\* another slice of the same builder gives what the overrides' original
\* contents merge to.
C36_MergeLeavesInputsUnchanged ==
    merged.how # "none" =>
        /\ \A id \in DOMAIN AccountDicts : merged.objects.accounts[id] = AccountDicts[id]
        /\ \A id \in DOMAIN SlotDicts : merged.objects.slots[id] = SlotDicts[id]
        /\ \A k \in DOMAIN merged.state_overwrites :
              OverrideValue(merged.objects, merged.state_overwrites[k])
                  = HeldValues(merged.state_overwrites)[k]
        /\ merged.result = merge_state_overwrites(HeldValues(merged.merged_list))

\* the merge of two stateDiff overrides and a state override of one address
\* raised after the stateDiff dicts were merged slot by slot; the merge for the
\* slice of the first call then returned the two stateDiff dicts' slots
C36_Witness ==
    /\ merged.how = "again"
    /\ merged.state_overwrites = <<[A |-> 4], [A |-> 6], [A |-> 3]>>
    /\ merged.merged_list = <<[A |-> 4], [A |-> 6]>>
    /\ merged.result = [A |-> [stateDiff |-> [x |-> 1, y |-> 1]]]
    /\ Len(merged.objects.accounts) = Len(AccountDicts) + 2

----------------------------------------------------------------------------
(* MultiCall.call_with_gas and the recursion of MultiCall._inner_call. Every
   recursive call's results are concatenated in the order of the calls, so
   the recursion is a stack of the slices of the call list still to execute
   and the two lists the results are appended to. *)

\* calls added to one builder
MaxCalls == 4
\* batch_size is drawn from 1..MaxBatchSize
MaxBatchSize == 3
\* multicalls that the node fails for no fault of a call, in one behaviour
MaxCallFaults == 1
\* multicalls that run out of gas before their last call, in one behaviour
MaxTruncations == 2

\* what a call does when executed: it returns data, it reverts, or it makes
\* every eth_call that contains it fail
Behaviours == {"ok", "revert", "failing"}

\* the slice calls_with_calldata[lo - 1 : hi] of the builder's calls, numbered
\* from 1; again marks the second eth_call made for a single call
Slice(lo, hi, again) == [lo |-> lo, hi |-> hi, again |-> again]

\* len(calls_with_calldata) of a slice
Length(slice) == slice.hi - slice.lo + 1

\* faulty variant, not the code: the slices are made from the end of the list
PartitionFromEnd(slice, batch_size) ==
    [k \in 1..((Length(slice) + batch_size - 1) \div batch_size) |->
        LET end == slice.hi - (k - 1) * batch_size
            start == IF end - batch_size + 1 > slice.lo THEN end - batch_size + 1
                     ELSE slice.lo
        IN  Slice(start, end, FALSE)]

\* `for start in range(0, len(calls_with_calldata), batch_size)`: the slices
\* [start:end] with end = min(start + batch_size, len(calls_with_calldata))
Partition(slice, batch_size) ==
    [k \in 1..((Length(slice) + batch_size - 1) \div batch_size) |->
        LET start == slice.lo + (k - 1) * batch_size
            end == IF start + batch_size - 1 < slice.hi THEN start + batch_size - 1
                   ELSE slice.hi
        IN  Slice(start, end, FALSE)]

\* `middle = len(calls_with_calldata) // 2` and the slices [:middle], [middle:]
Bisection(slice) ==
    LET middle == Length(slice) \div 2
    IN  <<Slice(slice.lo, slice.lo + middle - 1, FALSE),
          Slice(slice.lo + middle, slice.hi, FALSE)>>

\* the merged override of a slice: the global override, None in the model,
\* and the overrides of the slice's calls
SliceOverride(slice) ==
    merge_state_overwrites(
        <<None>> \o [k \in 1..Length(slice) |-> builder.state_overwrites[slice.lo + k - 1]])

\* the entry of raw_returns for call i, as decode_contract_function_results
\* leaves it: the decoded return value, or the ContractLogicError that
\* _decode_muilticall made of the call's revert
RawReturn(i) ==
    [call |-> i,
     result |-> IF builder.calls[i] = "revert" THEN "ContractLogicError" ELSE "decoded"]

\* the entry of gas_usages for call i
GasUsage(i) == [call |-> i, gas |-> "used"]

\* the entries of the first k calls of a slice
RawReturns(slice, k) == [j \in 1..k |-> RawReturn(slice.lo + j - 1)]
GasUsages(slice, k) == [j \in 1..k |-> GasUsage(slice.lo + j - 1)]

\* a call of the slice makes the eth_call fail
Failing(slice) == \E i \in slice.lo..slice.hi : builder.calls[i] = "failing"

\* faulty variant, not the code: every returned result is kept
KeptAll(returned, length) == returned

\* the results kept of `returned` results for `length` calls: `if
\* len(raw_returns) != len(calls_with_calldata) and len(raw_returns) > 1:
\* raw_returns = raw_returns[:-1]`
Kept(returned, length) ==
    IF returned # length /\ returned > 1 THEN returned - 1 ELSE returned

\* faulty variant, not the code: the remaining calls start after the dropped result
RemainingAfterReturned(slice, kept, returned) ==
    Slice(slice.lo + returned, slice.hi, FALSE)

\* the slice calls_with_calldata[len(results):]
Remaining(slice, kept, returned) == Slice(slice.lo + kept, slice.hi, FALSE)

\* faulty variant, not the code: every eth_call is made with the client's retry setting
RetryAlways(slice) == w3.should_retry

\* the `retry` argument of _call_multicall: False for the first eth_call of a
\* slice, self.w3.should_retry for the second eth_call of a single call
Retry(slice) == IF slice.again THEN w3.should_retry ELSE FALSE

\* the no_retry that exponential_retry receives for the eth_call of a slice:
\* _call_multicall puts "no_retry": not retry in the transaction
NoRetryOfCall(slice) ==
    NoRetryPassed("call", FALSE, IF Retry(slice) THEN "false" ELSE "true")

\* faulty variant, not the code: an answer without results is decoded like any other
NoDataNeverRaised(returned) == FALSE

\* `if len(multicall_result) == 0: raise ValueError("No data returned from
\* multicall")`, for an answer that holds `returned` results
NoData(returned) == returned = 0

\* a call of _call_multicall, for the history: the slice, the no_retry of its
\* eth_call, the times the eth_call was invoked, and the results it gave
MulticallRequest(slice, returned, kept) ==
    [lo |-> slice.lo, hi |-> slice.hi, again |-> slice.again,
     no_retry |-> NoRetryOfCall(slice), invocations |-> builder.retries + 1,
     returned |-> returned, kept |-> kept]


\* the slice whose _inner_call is running
slice == Head(builder.stack)

\* the _inner_call of the slice gets to the eth_call: the slice is within
\* batch_size and its overrides merge
Calls ==
    /\ builder.at = "running"
    /\ builder.stack # <<>>
    /\ ~slice.again
    /\ Length(slice) <= builder.batch_size
    /\ SliceOverride(slice) # AssertionError

\* faulty variant, not the code: the error of a single call is raised
SingleFailureRaised(b) ==
    [b EXCEPT !.at = "raised", !.error = "Exception", !.stack = <<>>]

\* `raw_returns = [e]; gas_usages = [None]` after the second eth_call of a
\* single call failed, then the decoding and the return of the two lists
SingleFailure(b) ==
    [b EXCEPT
        !.results = Append(@, [call |-> Head(b.stack).lo, result |-> "Exception"]),
        !.gas_usages = Append(@, [call |-> Head(b.stack).lo, gas |-> "None"]),
        !.retries = 0,
        !.raising = "none",
        !.stack = Tail(@)]

\* call_with_gas: _inner_call is called with all the calls of the builder
call_with_gas ==
    /\ builder.at = "idle"
    /\ builder' = [builder EXCEPT
                      !.at = "running",
                      !.stack = IF Len(builder.calls) = 0 THEN <<>>
                                ELSE <<Slice(1, Len(builder.calls), FALSE)>>]
    /\ UNCHANGED <<w3, getLogsVars, threads, observed, engine, merged, batcher, probe, resolved>>

\* `if len(calls_with_calldata) > batch_size`: _inner_call is called on each
\* slice of batch_size calls in turn
PartitionCalls ==
    /\ builder.at = "running"
    /\ builder.stack # <<>>
    /\ Length(slice) > builder.batch_size
    /\ builder' = [builder EXCEPT
                      !.stack = Partition(slice, builder.batch_size) \o Tail(@)]
    /\ UNCHANGED <<w3, getLogsVars, threads, observed, engine, merged, batcher, probe, resolved>>

\* merge_state_overwrites fails an assert: the AssertionError leaves _inner_call
\* and call_with_gas
OverridesConflict ==
    /\ builder.at = "running"
    /\ builder.stack # <<>>
    /\ ~slice.again
    /\ Length(slice) <= builder.batch_size
    /\ SliceOverride(slice) = AssertionError
    /\ builder' = [builder EXCEPT !.at = "raised", !.error = "AssertionError",
                                  !.stack = <<>>]
    /\ UNCHANGED <<w3, getLogsVars, threads, observed, engine, merged, batcher, probe, resolved>>

\* the eth_call raises, for a call of the slice or for a fault of the node (an
\* answer without results is one): a slice of several calls is bisected, a
\* single call is called a second time
MulticallRaises ==
    /\ Calls
    /\ Failing(slice) \/ builder.faults_left > 0
    /\ builder' = [builder EXCEPT
                      !.faults_left = IF Failing(slice) THEN @ ELSE @ - 1,
                      !.requests = Append(@, MulticallRequest(slice, 0, 0)),
                      !.stack = IF Length(slice) = 1
                                THEN <<Slice(slice.lo, slice.hi, TRUE)>> \o Tail(@)
                                ELSE Bisection(slice) \o Tail(@)]
    /\ UNCHANGED <<w3, getLogsVars, threads, observed, engine, merged, batcher, probe, resolved>>

\* the second eth_call of a single call raises too. Under exponential_retry
\* the error is slept on and the eth_call is invoked again; with no_retry, or
\* when the error is one the loop raises, the exception becomes the call's
\* result. A call that fails every eth_call fails each time with the same
\* error; a fault of the node is of any kind.
SingleCallRaises ==
    /\ builder.at = "running"
    /\ builder.stack # <<>>
    /\ slice.again
    /\ Failing(slice) \/ builder.faults_left > 0
    /\ \E e \in Errors :
          LET failed == [builder EXCEPT
                            !.faults_left = IF Failing(slice) THEN @ ELSE @ - 1]
          IN  /\ (Failing(slice) /\ builder.retries > 0) => e = builder.raising
              /\ IF NoRetryOfCall(slice) \/ Raises(e, builder.retries)
                 THEN builder' = SingleFailure(
                          [failed EXCEPT
                              !.requests = Append(@, MulticallRequest(slice, 0, 0))])
                 ELSE /\ builder.retries < MaxRetries
                      /\ builder' = [failed EXCEPT !.retries = @ + 1, !.raising = e]
    /\ UNCHANGED <<w3, getLogsVars, threads, observed, engine, merged, batcher, probe, resolved>>

\* the eth_call returns the results of the first `returned` calls: unless they
\* are all the calls or a single one, the last is dropped; the results are
\* decoded and _inner_call is called on the calls that have no result
MulticallReturns ==
    \E returned \in 0..MaxCalls :
        LET kept == Kept(returned, Length(slice))
        IN  /\ builder.at = "running"
            /\ builder.stack # <<>>
            /\ slice.again \/ Calls
            /\ ~Failing(slice)
            /\ ~NoData(returned)
            /\ returned <= Length(slice)
            /\ returned < Length(slice) => builder.truncations_left > 0
            /\ builder' = [builder EXCEPT
                  !.truncations_left = IF returned < Length(slice) THEN @ - 1 ELSE @,
                  !.requests = Append(@, MulticallRequest(slice, returned, kept)),
                  !.results = @ \o RawReturns(slice, kept),
                  !.gas_usages = @ \o GasUsages(slice, kept),
                  !.retries = 0,
                  !.raising = "none",
                  !.stack = IF kept = Length(slice) THEN Tail(@)
                            ELSE <<Remaining(slice, kept, returned)>> \o Tail(@)]
            /\ UNCHANGED <<w3, getLogsVars, threads, observed, engine, merged, batcher, probe, resolved>>

\* the outermost _inner_call returns (results, gas_usages) to call_with_gas
ReturnResults ==
    /\ builder.at = "running"
    /\ builder.stack = <<>>
    /\ builder' = [builder EXCEPT !.at = "returned"]
    /\ UNCHANGED <<w3, getLogsVars, threads, observed, engine, merged, batcher, probe, resolved>>

\* the overrides given to add_call with n calls: none, or an override of the
\* same balance with the first and with the last call
OverridePlans(n) ==
    {[i \in 1..n |-> None],
     [i \in 1..n |-> IF i \in {1, n} THEN [A |-> [balance |-> 1]] ELSE None]}

\* a builder with its calls added, the arguments of call_with_gas, and a node
InitMulticall ==
    /\ \E n \in 0..MaxCalls :
       \E calls_ \in [1..n -> Behaviours], state_overwrites \in OverridePlans(n),
          batch_size \in 1..MaxBatchSize :
          builder = [calls |-> calls_, state_overwrites |-> state_overwrites,
                     batch_size |-> batch_size, at |-> "idle", stack |-> <<>>,
                     results |-> <<>>, gas_usages |-> <<>>, error |-> "none",
                     requests |-> <<>>, faults_left |-> MaxCallFaults,
                     truncations_left |-> MaxTruncations, retries |-> 0,
                     raising |-> "none"]
    /\ w3 \in [should_retry : BOOLEAN]
    /\ NoGetLogs
    /\ threads = Unused
    /\ observed = Unused
    /\ engine = Unused
    /\ merged = Unused
    /\ batcher = Unused
    /\ probe = Unused
    /\ resolved = Unused

NextMulticall ==
    \/ call_with_gas
    \/ PartitionCalls
    \/ OverridesConflict
    \/ MulticallRaises
    \/ SingleCallRaises
    \/ MulticallReturns
    \/ ReturnResults

SpecMulticall == InitMulticall /\ [][NextMulticall]_vars

\* a builder of a client constructed with should_retry = False
InitMulticallNoRetry == InitMulticall /\ ~w3.should_retry

\* call_with_gas runs on: the next step of _inner_call is taken whenever
\* there is one
SpecMulticallNoRetry ==
    InitMulticallNoRetry /\ [][NextMulticall]_vars /\ WF_vars(NextMulticall)


\* the eth_calls made so far
Multicalls == DOMAIN builder.requests

\* both eth_calls made for call i alone failed
FailedAlone(i) ==
    \E j \in Multicalls :
        /\ builder.requests[j].lo = i /\ builder.requests[j].hi = i
        /\ builder.requests[j].again /\ builder.requests[j].returned = 0

\* the next _inner_call after eth_call j, made or about to be made, is for
\* the calls lo..hi
FollowedBy(j, lo, hi) ==
    IF j < Len(builder.requests)
    THEN builder.requests[j + 1].lo = lo /\ builder.requests[j + 1].hi = hi
    ELSE /\ builder.at = "running"
         /\ builder.stack # <<>>
         /\ slice = Slice(lo, hi, FALSE)
         /\ Len(builder.results) = lo - 1

\* C13: call_with_gas returns a results list and a gas_usages list that both
\* have one entry per call added to the builder, entry i being that of the
\* i-th call, whatever the partition into batches, the bisections after
\* failures and the re-executions after truncated answers.
C13_OneResultPerCall ==
    builder.at = "returned" =>
        /\ Len(builder.results) = Len(builder.calls)
        /\ Len(builder.gas_usages) = Len(builder.calls)
        /\ \A i \in 1..Len(builder.results) : builder.results[i].call = i
        /\ \A i \in 1..Len(builder.gas_usages) : builder.gas_usages[i].call = i

\* a returned call_with_gas whose calls were partitioned, bisected after a
\* failure and re-executed after a truncated answer
C13_Witness ==
    /\ builder.at = "returned"
    /\ Len(builder.calls) > builder.batch_size
    /\ \E j \in Multicalls :
          builder.requests[j].returned = 0 /\ builder.requests[j].lo < builder.requests[j].hi
    /\ \E j \in Multicalls :
          /\ builder.requests[j].returned > 0
          /\ builder.requests[j].returned < Length(builder.requests[j])

\* C14: when an eth_call for n calls returns k results with 1 < k < n, the
\* first k - 1 are kept and the next multicall is for the calls from the k-th
\* of them (index k - 1 from zero) to the last; when it returns one result
\* for n > 1 calls, that result is kept and the next multicall is for the
\* other n - 1 calls.
C14_TruncatedAnswerReexecuted ==
    \A j \in Multicalls :
        LET r == builder.requests[j]
            n == Length(r)
            k == r.returned
        IN  /\ (1 < k /\ k < n) =>
                  /\ r.kept = k - 1
                  /\ FollowedBy(j, r.lo + k - 1, r.hi)
            /\ (k = 1 /\ n > 1) =>
                  /\ r.kept = 1
                  /\ FollowedBy(j, r.lo + 1, r.hi)

\* an eth_call for 3 calls returned 2 results, and the next one was made
C14_Witness ==
    \E j \in Multicalls :
        /\ Length(builder.requests[j]) = 3
        /\ builder.requests[j].returned = 2
        /\ j < Len(builder.requests)
        /\ builder.at = "returned"

\* C15: a revert of a call, and a failure of the eth_calls that contain a
\* call, never make call_with_gas raise (it raises for conflicting overrides
\* only): in the returned list the slot of a call that reverted, that fails
\* every eth_call or whose own eth_calls both failed holds an exception, and
\* every other slot holds that call's decoded result.
C15_FailuresReturnedNotRaised ==
    /\ builder.at = "raised" => builder.error = "AssertionError"
    /\ builder.at = "returned" =>
          \A i \in 1..Len(builder.results) :
              /\ builder.results[i].call = i
              /\ builder.results[i].result =
                    IF builder.calls[i] = "failing" \/ FailedAlone(i) THEN "Exception"
                    ELSE IF builder.calls[i] = "revert" THEN "ContractLogicError"
                    ELSE "decoded"

\* three calls, the second reverting, returned [ok, exception, ok]
C15_Witness ==
    /\ builder.at = "returned"
    /\ builder.calls = <<"ok", "revert", "ok">>
    /\ Len(builder.results) = 3
    /\ builder.results[1].result = "decoded"
    /\ builder.results[2].result = "ContractLogicError"
    /\ builder.results[3].result = "decoded"

\* C33: a slice of more than one call is sent once, with no_retry, and never
\* again as a whole: when its eth_call raises it is cut at len // 2 into two
\* non-empty halves that are executed in turn. Only the eth_call of a single
\* call is made a second time, with the backoff loop when should_retry is
\* true, and when that one raises too the exception is the call's result and
\* its gas usage is None.
C33_SlicesBisectedNotRetried ==
    \A j \in Multicalls :
        LET r == builder.requests[j]
            middle == Length(r) \div 2
        IN  /\ r.lo < r.hi =>
                  /\ ~r.again /\ r.no_retry /\ r.invocations = 1
                  /\ \A k \in Multicalls \ {j} :
                        ~(builder.requests[k].lo = r.lo /\ builder.requests[k].hi = r.hi)
            /\ (r.lo < r.hi /\ r.returned = 0) =>
                  /\ 1 <= middle /\ middle < Length(r)
                  /\ FollowedBy(j, r.lo, r.lo + middle - 1)
                  /\ builder.at = "returned" =>
                        \E k \in Multicalls :
                            /\ k > j
                            /\ builder.requests[k].lo = r.lo + middle
                            /\ builder.requests[k].hi = r.hi
            /\ (r.lo = r.hi /\ ~r.again /\ r.returned = 0) =>
                  IF j < Len(builder.requests)
                  THEN /\ builder.requests[j + 1].again
                       /\ builder.requests[j + 1].lo = r.lo
                  ELSE builder.stack # <<>> /\ slice = Slice(r.lo, r.hi, TRUE)
            /\ r.again =>
                  /\ r.lo = r.hi
                  /\ r.no_retry = ~w3.should_retry
                  /\ j > 1
                  /\ builder.requests[j - 1].lo = r.lo /\ builder.requests[j - 1].hi = r.hi
                  /\ ~builder.requests[j - 1].again /\ builder.requests[j - 1].returned = 0
            /\ r.invocations > 1 => r.again /\ w3.should_retry
            /\ (r.again /\ r.returned = 0) =>
                  /\ Len(builder.results) >= r.lo /\ Len(builder.gas_usages) >= r.lo
                  /\ builder.results[r.lo] = [call |-> r.lo, result |-> "Exception"]
                  /\ builder.gas_usages[r.lo] = [call |-> r.lo, gas |-> "None"]

\* a client that retries: a slice of two calls failed and was cut in two; the
\* eth_call of its first call failed alone, was made again and, after four
\* invocations in the backoff loop, left the exception in the call's slot
C33_Witness ==
    /\ builder.at = "returned" /\ w3.should_retry
    /\ \E j \in Multicalls :
          /\ j + 2 <= Len(builder.requests)
          /\ Length(builder.requests[j]) = 2 /\ builder.requests[j].returned = 0
          /\ Length(builder.requests[j + 1]) = 1 /\ builder.requests[j + 1].returned = 0
          /\ builder.requests[j + 2].again /\ builder.requests[j + 2].returned = 0
          /\ builder.requests[j + 2].invocations = UnknownBlockRetries + 1
          /\ builder.results[builder.requests[j].lo].result = "Exception"

\* the slices still to execute are the calls without a result, in order
PendingInOrder ==
    /\ \A k \in 1..Len(builder.stack) : builder.stack[k].lo <= builder.stack[k].hi
    /\ \A k \in 1..(Len(builder.stack) - 1) :
          builder.stack[k + 1].lo = builder.stack[k].hi + 1
    /\ builder.stack # <<>> =>
          /\ builder.stack[1].lo = Len(builder.results) + 1
          /\ builder.stack[Len(builder.stack)].hi = Len(builder.calls)
    /\ builder.stack = <<>> => Len(builder.results) = Len(builder.calls)

----------------------------------------------------------------------------
(* BatchRetryMiddleware: middleware(requests_info) between web3's batch     *)
(* interface and the transport.                                            *)
(*                                                                         *)
(* middleware is recursive. `stack` holds the calls still to make, the     *)
(* next one first, each followed by what its caller does with the values   *)
(* returned: concatenate them (the for loop's `+=`, the halves' `+`) or    *)
(* store them at the indices of the requests sent again. `values` holds    *)
(* the lists the calls made so far returned. No call is made inside a try  *)
(* body, so an exception of any call ends the outermost one.               *)

\* longest batch handed to the middleware
MaxBatch == 3

\* largest rpc_batch_max_size a client is built with
MaxBatchMaxSize == 3

\* what the transport may do wrong over one batch: a fault is an exception,
\* an answer of the wrong shape, or one response that is no result
MaxTransportFaults == 2

\* the methods of the requests: the two of the get_logs packet, and another
Methods == {"eth_getLogs", "eth_getBlockByNumber", "eth_call"}

\* requests_info: (method, params) pairs, params being the position in the
\* outermost batch
RequestsOf(methods) ==
    [k \in 1..Len(methods) |-> [pos |-> k, method |-> methods[k]]]

\* a response is a result, carries an "error", has a "jsonrpc" other than
\* "2.0", or has a null result
ResponseKinds == {"result", "error", "jsonrpc", "null"}

\* "eth_getBlockBy" in method
IsGetBlockBy(method) == method = "eth_getBlockByNumber"

\* the test of lines 70-77 on one response of a batch
FailedResponse(request_single, response_single) ==
    \/ response_single.kind = "error"
    \/ response_single.kind = "jsonrpc"
    \/ IsGetBlockBy(request_single.method) /\ response_single.kind = "null"

\* what the transport may do with a batch: raise, answer with something that
\* is no list, with a list that lacks its last response, or with one response
\* per request of which those at `failing` are of the given kind
BatchOutcomes(requests_info) ==
    {[shape |-> sh, failing |-> {}, kind |-> "result"] :
        sh \in {"list", "exception", "malformed", "short"}}
    \cup {[shape |-> "list", failing |-> F, kind |-> k] :
            F \in (SUBSET (1..Len(requests_info))) \ {{}},
            k \in ResponseKinds \ {"result"}}

\* the faults of an answer
Faults(outcome) ==
    IF outcome.shape = "list" THEN Cardinality(outcome.failing) ELSE 1

\* the n-th answer of the transport; what is no list is kept as a list of one
\* marker, the key that iterating over it would give
BatchResponse(requests_info, outcome, n) ==
    LET full == [k \in 1..Len(requests_info) |->
                    [pos |-> requests_info[k].pos,
                     kind |-> IF k \in outcome.failing THEN outcome.kind ELSE "result",
                     from |-> n]]
    IN  CASE outcome.shape = "list" -> full
          [] outcome.shape = "short" -> SubSeq(full, 1, Len(full) - 1)
          [] outcome.shape = "malformed" -> <<[pos |-> 0, kind |-> "malformed", from |-> n]>>
          [] OTHER -> <<>>

\* isinstance(response, list) or isinstance(response, tuple)
IsList(response) ==
    ~(Len(response) = 1 /\ response[1].kind = "malformed")

\* faulty variant, not the code: the size test is off by one
ExceedsMaxSizeByTwo(requests_info) ==
    /\ w3.rpc_batch_max_size # 0
    /\ Len(requests_info) > w3.rpc_batch_max_size + 1

\* len(requests_info) > self._w3.rpc_batch_max_size != 0
ExceedsMaxSize(requests_info) ==
    /\ Len(requests_info) > w3.rpc_batch_max_size
    /\ w3.rpc_batch_max_size # 0

\* range(0, len(requests_info), rpc_batch_max_size), from one
SliceStarts(requests_info) ==
    {start \in 1..Len(requests_info) : (start - 1) % w3.rpc_batch_max_size = 0}

\* requests_info[start:start + rpc_batch_max_size]
SliceFrom(requests_info, start) ==
    SubSeq(requests_info, start,
           IF start + w3.rpc_batch_max_size - 1 < Len(requests_info)
           THEN start + w3.rpc_batch_max_size - 1 ELSE Len(requests_info))

\* faulty variant, not the code: a batch of one request is sent as a batch
IndividuallyOnlyWithoutBatching(requests_info) ==
    w3.rpc_batch_max_size = 0

\* self._w3.rpc_batch_max_size == 0 or len(requests_info) == 1
Individually(requests_info) ==
    w3.rpc_batch_max_size = 0 \/ Len(requests_info) = 1

\* faulty variant, not the code: the packet of get_logs is not recognised
NeverWitnessPacket(requests_info) ==
    FALSE

\* the packets get_logs sends: its range request before the block of toBlock,
\* with the block before fromBlock in front when a parent hash was given
IsWitnessPacket(requests_info) ==
    \/ /\ Len(requests_info) = 2
       /\ requests_info[1].method = "eth_getLogs"
       /\ requests_info[2].method = "eth_getBlockByNumber"
    \/ /\ Len(requests_info) = 3
       /\ requests_info[1].method = "eth_getBlockByNumber"
       /\ requests_info[2].method = "eth_getLogs"
       /\ requests_info[3].method = "eth_getBlockByNumber"

\* faulty variant, not the code: eth_getLogs is retried like any method
BatchNoRetryOnlyWithoutShouldRetry(method) ==
    ~w3.should_retry

\* no_retry=not self._w3.should_retry or method == "eth_getLogs"
BatchNoRetry(method) ==
    ~w3.should_retry \/ method = "eth_getLogs"

\* what request_wrapper raises on a response, "none" when it returns it
WrapperRaises(method, kind) ==
    IF kind = "exception" THEN "TransportError"
    ELSE IF kind = "error" /\ w3.should_retry THEN "Exception"
    ELSE IF kind = "jsonrpc" THEN "BadResponseFormat"
    ELSE IF IsGetBlockBy(method) /\ kind = "null" /\ w3.should_retry
    THEN "Block not found"
    ELSE "none"

\* the indices, in order, of the responses that failed
FailedIndexes(requests_info, response) ==
    {i \in 1..Len(requests_info) : FailedResponse(requests_info[i], response[i])}

\* the k-th smallest element of a set of numbers
Nth(S, k) ==
    CHOOSE x \in S : Cardinality({y \in S : y < x}) = k - 1

\* requests_retry: the requests whose responses failed, in their order
RequestsRetry(requests_info, response) ==
    LET failed == FailedIndexes(requests_info, response)
    IN  [k \in 1..Cardinality(failed) |-> requests_info[Nth(failed, k)]]

\* request_indexes: (index in the batch, index among the requests sent again)
RequestIndexes(requests_info, response) ==
    LET failed == FailedIndexes(requests_info, response)
    IN  [k \in 1..Cardinality(failed) |-> <<Nth(failed, k), k>>]

\* faulty variant, not the code: the new response is stored at its own index
SplicedAtNewIndex(response, response_new, request_indexes) ==
    [i \in 1..Len(response) |->
        IF \E j \in 1..Len(request_indexes) : request_indexes[j][2] = i
        THEN response_new[i]
        ELSE response[i]]

\* for old_idx, new_idx in request_indexes: response[old_idx] = response_new[new_idx]
Spliced(response, response_new, request_indexes) ==
    [i \in 1..Len(response) |->
        IF \E j \in 1..Len(request_indexes) : request_indexes[j][1] = i
        THEN response_new[(CHOOSE j \in 1..Len(request_indexes) :
                              request_indexes[j][1] = i)]
        ELSE response[i]]

\* the exception of response_new[new_idx] when response_new is no list or
\* lacks a response, "none" when every index is there
SpliceRaises(response_new, request_indexes) ==
    IF ~IsList(response_new) THEN "KeyError"
    ELSE IF Len(response_new) < Len(request_indexes) THEN "IndexError"
    ELSE "none"

\* middle = len(requests_info) // 2
Middle(requests_info) == Len(requests_info) \div 2

\* a call of middleware still to make
CallFrame(requests_info) == [op |-> "call", requests_info |-> requests_info]

\* requests_info[:middle] and requests_info[middle:], then `+`
Bisected(requests_info) ==
    <<CallFrame(SubSeq(requests_info, 1, Middle(requests_info))),
      CallFrame(SubSeq(requests_info, Middle(requests_info) + 1, Len(requests_info))),
      [op |-> "plus"]>>

\* the slices of the for loop, then the `+=` of each onto response
Sliced(requests_info) ==
    LET starts == SliceStarts(requests_info)
    IN  [k \in 1..Cardinality(starts) |->
            CallFrame(SliceFrom(requests_info, Nth(starts, k)))]
        \o <<[op |-> "extend", n |-> Cardinality(starts)]>>

RECURSIVE Flattened(_)
\* the lists of a sequence, one after another
Flattened(lists) ==
    IF lists = <<>> THEN <<>> ELSE Head(lists) \o Flattened(Tail(lists))

RECURSIVE Unwound(_, _)
\* the callers that have all their values go on: `stack_` and `values_` when
\* the next thing to do is a call, with the exception a caller raised
Unwound(stack_, values_) ==
    IF stack_ = <<>> THEN [stack |-> <<>>, values |-> values_, raised |-> "none"]
    ELSE
    LET f == Head(stack_)
        n == Len(values_)
    IN  IF f.op = "extend"
        THEN Unwound(Tail(stack_),
                     Append(SubSeq(values_, 1, n - f.n),
                            Flattened(SubSeq(values_, n - f.n + 1, n))))
        ELSE IF f.op = "plus"
        THEN IF ~IsList(values_[n - 1]) \/ ~IsList(values_[n])
             THEN [stack |-> <<>>, values |-> <<>>, raised |-> "TypeError"]
             ELSE Unwound(Tail(stack_),
                          Append(SubSeq(values_, 1, n - 2),
                                 values_[n - 1] \o values_[n]))
        ELSE IF f.op = "splice"
        THEN IF SpliceRaises(values_[n], f.request_indexes) # "none"
             THEN [stack |-> <<>>, values |-> <<>>,
                   raised |-> SpliceRaises(values_[n], f.request_indexes)]
             ELSE Unwound(Tail(stack_),
                          Append(SubSeq(values_, 1, n - 1),
                                 Spliced(f.response, values_[n], f.request_indexes)))
        ELSE [stack |-> stack_, values |-> values_, raised |-> "none"]

\* the middleware after the call on top of the stack returned `response`
AfterReturn(b, response) ==
    LET u == Unwound(Tail(b.stack), Append(b.values, response))
    IN  IF u.raised # "none"
        THEN [b EXCEPT !.at = "raised", !.raised = u.raised,
                       !.stack = <<>>, !.values = <<>>]
        ELSE IF u.stack = <<>>
        THEN [b EXCEPT !.at = "returned", !.returned = u.values[1],
                       !.stack = <<>>, !.values = <<>>]
        ELSE [b EXCEPT !.stack = u.stack, !.values = u.values]

\* the middleware after the call on top of the stack raised
AfterRaise(b, exception) ==
    [b EXCEPT !.at = "raised", !.raised = exception, !.stack = <<>>, !.values = <<>>]

\* the middleware after the call on top of the stack made these calls instead
AfterCalls(b, frames) ==
    [b EXCEPT !.stack = frames \o Tail(@)]

\* `assert len(requests_info) > 1`, then the calls on the two halves
Bisect(b, requests_info) ==
    IF Len(requests_info) > 1
    THEN AfterCalls(b, Bisected(requests_info))
    ELSE AfterRaise(b, "AssertionError")

\* one more entry of the transport's history
Sent(b, how, requests_info, outcome, response) ==
    [b EXCEPT !.transport = Append(@, [how |-> how, requests_info |-> requests_info,
                                       outcome |-> outcome, response |-> response]),
              !.faults = @ - Faults(outcome)]

\* the middleware before web3 hands it a batch
NotCalled ==
    [at |-> "idle", requests_info |-> <<>>, stack |-> <<>>, values |-> <<>>,
     transport |-> <<>>, faults |-> MaxTransportFaults, returned |-> <<>>,
     raised |-> "none"]

\* the call the middleware makes next
TopCall == Head(batcher.stack)

\* the middleware is about to make a call on these requests
Calling ==
    /\ batcher.at = "running"
    /\ batcher.stack # <<>>
    /\ TopCall.op = "call"

\* web3 hands the middleware a batch
middleware ==
    \E n \in 0..MaxBatch : \E methods \in [1..n -> Methods] :
        /\ batcher.at = "idle"
        /\ batcher' = [NotCalled EXCEPT
                        !.at = "running",
                        !.requests_info = RequestsOf(methods),
                        !.stack = <<CallFrame(RequestsOf(methods))>>]
        /\ UNCHANGED <<w3, getLogsVars, threads, observed, engine, builder, merged, probe, resolved>>

\* `if len(requests_info) == 0: return []`
EmptyBatch ==
    /\ Calling
    /\ Len(TopCall.requests_info) = 0
    /\ batcher' = AfterReturn(batcher, <<>>)
    /\ UNCHANGED <<w3, getLogsVars, threads, observed, engine, builder, merged, probe, resolved>>

\* the batch is larger than the node takes: one call per slice
SplitAtMaxSize ==
    /\ Calling
    /\ Len(TopCall.requests_info) # 0
    /\ ExceedsMaxSize(TopCall.requests_info)
    /\ batcher' = AfterCalls(batcher, Sliced(TopCall.requests_info))
    /\ UNCHANGED <<w3, getLogsVars, threads, observed, engine, builder, merged, probe, resolved>>

\* the position of the list comprehension of lines 40-47: the request it is
\* at, its responses so far and the retries of exponential_retry's loop
Comprehension ==
    IF TopCall.op = "request" THEN TopCall
    ELSE [op |-> "request", requests_info |-> TopCall.requests_info, i |-> 1,
          responses |-> <<>>, retries |-> 0]

\* one make_request of the list comprehension, through request_wrapper and
\* exponential_retry. The messages of the errors here do not say
\* "unknown block": the loop raises none of them.
request_wrapper ==
    \E kind \in ResponseKinds \cup {"exception"} :
        /\ batcher.at = "running"
        /\ batcher.stack # <<>>
        /\ \/ TopCall.op = "request"
           \/ /\ TopCall.op = "call"
              /\ Len(TopCall.requests_info) # 0
              /\ ~ExceedsMaxSize(TopCall.requests_info)
              /\ Individually(TopCall.requests_info)
        /\ kind # "result" => batcher.faults > 0
        /\ LET c == Comprehension
               request == c.requests_info[c.i]
               n == Len(batcher.transport) + 1
               response == [pos |-> request.pos, kind |-> kind, from |-> n]
               outcome == [shape |-> IF kind = "exception" THEN "exception" ELSE "list",
                           failing |-> IF kind = "result" THEN {} ELSE {1},
                           kind |-> kind]
               sent == Sent(batcher, "single", <<request>>, outcome,
                            IF kind = "exception" THEN <<>> ELSE <<response>>)
               e == WrapperRaises(request.method, kind)
           IN  batcher' =
                 IF e # "none"
                 THEN IF BatchNoRetry(request.method) \/ Raises("timeout", c.retries)
                      THEN AfterRaise(sent, e)
                      ELSE AfterCalls(sent, <<[c EXCEPT !.retries = @ + 1]>>)
                 ELSE IF c.i = Len(c.requests_info)
                 THEN AfterReturn(sent, Append(c.responses, response))
                 ELSE AfterCalls(sent, <<[c EXCEPT !.i = @ + 1, !.retries = 0,
                                             !.responses = Append(@, response)]>>)
        /\ UNCHANGED <<w3, getLogsVars, threads, observed, engine, builder, merged, probe, resolved>>

\* `return make_batch_request(requests_info)` for a packet of get_logs
WitnessPacket ==
    /\ Calling
    /\ Len(TopCall.requests_info) # 0
    /\ ~ExceedsMaxSize(TopCall.requests_info)
    /\ ~Individually(TopCall.requests_info)
    /\ IsWitnessPacket(TopCall.requests_info)
    /\ \E outcome \in BatchOutcomes(TopCall.requests_info) :
        /\ Faults(outcome) <= batcher.faults
        /\ LET n == Len(batcher.transport) + 1
               response == BatchResponse(TopCall.requests_info, outcome, n)
               sent == Sent(batcher, "batch", TopCall.requests_info, outcome, response)
           IN  batcher' = IF outcome.shape = "exception"
                        THEN AfterRaise(sent, "TransportError")
                        ELSE AfterReturn(sent, response)
        /\ UNCHANGED <<w3, getLogsVars, threads, observed, engine, builder, merged, probe, resolved>>

\* lines 56-95: the batch is sent; its response is returned, its failed
\* requests are sent again, or it is cut in two halves (after 100 ms)
make_batch_request ==
    /\ Calling
    /\ Len(TopCall.requests_info) # 0
    /\ ~ExceedsMaxSize(TopCall.requests_info)
    /\ ~Individually(TopCall.requests_info)
    /\ ~IsWitnessPacket(TopCall.requests_info)
    /\ \E outcome \in BatchOutcomes(TopCall.requests_info) :
        /\ Faults(outcome) <= batcher.faults
        /\ LET requests_info == TopCall.requests_info
               n == Len(batcher.transport) + 1
               response == BatchResponse(requests_info, outcome, n)
               sent == Sent(batcher, "batch", requests_info, outcome, response)
               requests_retry == RequestsRetry(requests_info, response)
           IN  batcher' =
                 IF outcome.shape = "exception" \/ ~IsList(response)
                    \/ Len(response) # Len(requests_info)
                 THEN Bisect(sent, requests_info)
                 ELSE IF Len(requests_retry) = 0
                 THEN AfterReturn(sent, response)
                 ELSE IF Len(requests_retry) # Len(requests_info)
                 THEN AfterCalls(sent,
                         <<CallFrame(requests_retry),
                           [op |-> "splice", response |-> response,
                            request_indexes |-> RequestIndexes(requests_info, response)]>>)
                 ELSE Bisect(sent, requests_info)
        /\ UNCHANGED <<w3, getLogsVars, threads, observed, engine, builder, merged, probe, resolved>>

\* clients with every rpc_batch_max_size the probe may have found, before any
\* batch
InitBatch ==
    /\ w3 \in [rpc_batch_max_size : 0..MaxBatchMaxSize, should_retry : BOOLEAN]
    /\ batcher = NotCalled
    /\ NoGetLogs
    /\ threads = Unused
    /\ observed = Unused
    /\ engine = Unused
    /\ builder = Unused
    /\ merged = Unused
    /\ probe = Unused
    /\ resolved = Unused

NextBatch ==
    \/ middleware
    \/ EmptyBatch
    \/ SplitAtMaxSize
    \/ request_wrapper
    \/ WitnessPacket
    \/ make_batch_request

SpecBatch == InitBatch /\ [][NextBatch]_vars


\* the methods of a batch, in order
MethodsOf(requests_info) ==
    [k \in 1..Len(requests_info) |-> requests_info[k].method]

\* the batch is one that get_logs sends: its range request and the block of
\* toBlock, after the block of fromBlock when a parent hash is to be checked
GetLogsPacket(requests_info) ==
    MethodsOf(requests_info) \in
        {<<"eth_getLogs", "eth_getBlockByNumber">>,
         <<"eth_getBlockByNumber", "eth_getLogs", "eth_getBlockByNumber">>}

\* the positions, in the outermost batch, of the requests of a list
Positions(requests_info) ==
    {requests_info[k].pos : k \in 1..Len(requests_info)}

\* the n-th request the transport was handed
Transport(n) == batcher.transport[n]

\* the call of the middleware is over
BatchEnded == batcher.at \in {"returned", "raised"}

\* response i answers request i of the outermost batch
AnswersInOrder(response) ==
    /\ Len(response) = Len(batcher.requests_info)
    /\ \A i \in 1..Len(response) : response[i].pos = i

\* every packet of get_logs was answered with one response per request
PacketsAnswered ==
    \A n \in 1..Len(batcher.transport) :
        Transport(n).how = "batch" /\ GetLogsPacket(Transport(n).requests_info) =>
            Transport(n).outcome.shape = "list"

\* C22: with rpc_batch_max_size = M > 0 the transport is never handed a batch
\* of more than M requests: a larger batch is cut into consecutive slices of
\* at most M requests and the answers come back in the order of the requests;
\* with M = 0, or a batch of one request, the transport is handed single
\* requests only.
C22_BatchesWithinMaxSize ==
    /\ \A n \in 1..Len(batcher.transport) :
          Transport(n).how = "batch" =>
              /\ w3.rpc_batch_max_size # 0
              /\ Len(Transport(n).requests_info) <= w3.rpc_batch_max_size
              /\ Len(Transport(n).requests_info) > 1
              /\ Len(batcher.requests_info) > 1
    /\ \A n \in 1..Len(batcher.transport) :
          Transport(n).how = "single" => Len(Transport(n).requests_info) = 1
    /\ (/\ batcher.at = "running"
        /\ batcher.transport = <<>>
        /\ Len(batcher.stack) > 1) =>
          /\ Len(batcher.requests_info) > w3.rpc_batch_max_size
          /\ \A k \in 1..(Len(batcher.stack) - 1) :
                /\ batcher.stack[k].op = "call"
                /\ Len(batcher.stack[k].requests_info) <= w3.rpc_batch_max_size
                /\ \A j \in 1..Len(batcher.stack[k].requests_info) :
                      batcher.stack[k].requests_info[j].pos =
                          (k - 1) * w3.rpc_batch_max_size + j
          /\ Positions(batcher.stack[Len(batcher.stack) - 1].requests_info)
                 = (((Len(batcher.stack) - 2) * w3.rpc_batch_max_size + 1)
                       ..Len(batcher.requests_info))
    /\ batcher.at = "returned" /\ PacketsAnswered =>
          AnswersInOrder(batcher.returned)

\* a batch of three went to a node that takes two as a batch of two and a
\* single request, and the three answers came back in order
C22_Witness ==
    /\ batcher.at = "returned"
    /\ w3.rpc_batch_max_size = 2
    /\ Len(batcher.requests_info) = 3
    /\ ~GetLogsPacket(batcher.requests_info)
    /\ Len(batcher.transport) = 2
    /\ Transport(1).how = "batch"
    /\ Positions(Transport(1).requests_info) = {1, 2}
    /\ Transport(2).how = "single"
    /\ Positions(Transport(2).requests_info) = {3}
    /\ AnswersInOrder(batcher.returned)

\* the packet went to the transport as it is, once, and what the transport
\* did with it is what the middleware does
PassedVerbatim ==
    /\ batcher.at = "running" => batcher.transport = <<>>
    /\ BatchEnded =>
          /\ Len(batcher.transport) = 1
          /\ Transport(1).how = "batch"
          /\ Transport(1).requests_info = batcher.requests_info
          /\ IF Transport(1).outcome.shape = "exception"
             THEN batcher.at = "raised" /\ batcher.raised = "TransportError"
             ELSE batcher.at = "returned" /\ batcher.returned = Transport(1).response

\* C23: a batch [eth_getLogs, eth_getBlockByNumber] or [eth_getBlockByNumber,
\* eth_getLogs, eth_getBlockByNumber] that is no longer than a non-zero
\* rpc_batch_max_size is passed to the transport as it is, once, without
\* splitting, validation or retry, and the transport's response or exception
\* is handed back unchanged.
C23_PacketWithinMaxSizeVerbatim ==
    (/\ GetLogsPacket(batcher.requests_info)
     /\ w3.rpc_batch_max_size >= Len(batcher.requests_info)) =>
        PassedVerbatim

\* a packet of three was answered with an error in its eth_getLogs response,
\* and that answer is what the middleware returned
C23_Witness ==
    /\ GetLogsPacket(batcher.requests_info)
    /\ Len(batcher.requests_info) = 3
    /\ w3.rpc_batch_max_size = 3
    /\ batcher.at = "returned"
    /\ Len(batcher.transport) = 1
    /\ batcher.returned[2].kind = "error"

\* C23 as stated: every packet of get_logs is passed verbatim, whatever
\* rpc_batch_max_size is.
C23_PacketAlwaysVerbatim ==
    GetLogsPacket(batcher.requests_info) => PassedVerbatim

\* the n-th request was a validated batch whose answer was one response per
\* request of which some, not all, failed
PartialFailure(n) ==
    /\ Transport(n).how = "batch"
    /\ ~GetLogsPacket(Transport(n).requests_info)
    /\ Transport(n).outcome.shape = "list"
    /\ FailedIndexes(Transport(n).requests_info, Transport(n).response) # {}
    /\ FailedIndexes(Transport(n).requests_info, Transport(n).response)
         # 1..Len(Transport(n).requests_info)

\* the positions of the requests of the n-th batch whose responses failed
FailedPositions(n) ==
    {Transport(n).requests_info[k].pos :
        k \in FailedIndexes(Transport(n).requests_info, Transport(n).response)}

\* C24: when the answer to a batch has one response per request and some but
\* not all of them failed (an error, a jsonrpc other than "2.0", a null result
\* of an eth_getBlockBy* request), only the failed requests are sent again:
\* the other responses are kept, never asked for again, and each new response
\* is stored where its request is, so that response i answers request i.
C24_OnlyFailedSentAgain ==
    \A n \in 1..Len(batcher.transport) :
        PartialFailure(n) =>
            /\ \A m \in (n + 1)..Len(batcher.transport) :
                  Positions(Transport(m).requests_info)
                      \cap (Positions(Transport(n).requests_info) \ FailedPositions(n)) = {}
            /\ Len(batcher.transport) > n =>
                  Positions(Transport(n + 1).requests_info) \subseteq FailedPositions(n)
            /\ batcher.at = "running" /\ Len(batcher.transport) = n =>
                  Positions(TopCall.requests_info) = FailedPositions(n)
            /\ batcher.at = "returned" =>
                  \A i \in 1..Len(batcher.returned) :
                      /\ batcher.returned[i].pos
                            \in Positions(Transport(n).requests_info) \ FailedPositions(n) =>
                                batcher.returned[i].from = n
                      /\ batcher.returned[i].pos \in FailedPositions(n) =>
                            batcher.returned[i].from > n
            /\ (/\ batcher.at = "returned"
                /\ Transport(n).requests_info = batcher.requests_info) =>
                  AnswersInOrder(batcher.returned)

\* of a batch of three the second response carried an error: the second
\* request alone was sent again, and its new response is the second returned
C24_Witness ==
    /\ batcher.at = "returned"
    /\ Len(batcher.requests_info) = 3
    /\ Len(batcher.transport) = 2
    /\ PartialFailure(1)
    /\ FailedPositions(1) = {2}
    /\ Transport(2).requests_info = <<batcher.requests_info[2]>>
    /\ batcher.returned[1].from = 1
    /\ batcher.returned[2].from = 2
    /\ batcher.returned[2].kind = "result"
    /\ batcher.returned[3].from = 1

\* the n-th request was a single eth_getLogs
SingleGetLogs(n) ==
    /\ Transport(n).how = "single"
    /\ Transport(n).requests_info[1].method = "eth_getLogs"

\* the n-th request, a single one, ended in an exception of request_wrapper
SingleRaised(n) ==
    WrapperRaises(Transport(n).requests_info[1].method, Transport(n).outcome.kind) # "none"

\* the n-th request was the last attempt at its request, and its exception is
\* the one the middleware raised
RaisedAtOnce(n) ==
    /\ n = Len(batcher.transport)
    /\ batcher.at = "raised"
    /\ batcher.raised =
          WrapperRaises(Transport(n).requests_info[1].method, Transport(n).outcome.kind)

\* the n-th request, a single one, was made once
AttemptedOnce(n) ==
    \A m \in 1..Len(batcher.transport) :
        (Transport(m).how = "single" /\ Transport(m).requests_info = Transport(n).requests_info)
            => m = n

\* C25: an eth_getLogs request that the middleware sends as a single request
\* is attempted once at this layer: a transport exception, a malformed
\* response and, on a client that retries, an error response are raised to
\* the caller without retry (on a client that does not retry an error
\* response is returned as the response), while a request of another method
\* that fails on a client that retries is attempted again.
C25_GetLogsAttemptedOnce ==
    \A n \in 1..Len(batcher.transport) :
        /\ SingleGetLogs(n) =>
              /\ AttemptedOnce(n)
              /\ SingleRaised(n) => RaisedAtOnce(n)
              /\ Transport(n).outcome.kind = "exception" => SingleRaised(n)
              /\ Transport(n).outcome.kind = "error" /\ w3.should_retry => SingleRaised(n)
              /\ Transport(n).outcome.kind = "error" /\ ~w3.should_retry =>
                    /\ ~SingleRaised(n)
                    /\ batcher.at = "returned" =>
                          \E i \in 1..Len(batcher.returned) :
                              batcher.returned[i] = Transport(n).response[1]
        /\ (/\ Transport(n).how = "single"
            /\ ~SingleGetLogs(n)
            /\ w3.should_retry
            /\ SingleRaised(n)) =>
              IF n = Len(batcher.transport)
              THEN /\ batcher.at = "running"
                   /\ TopCall.op = "request"
                   /\ TopCall.retries >= 1
                   /\ TopCall.requests_info[TopCall.i] = Transport(n).requests_info[1]
              ELSE /\ Transport(n + 1).how = "single"
                   /\ Transport(n + 1).requests_info = Transport(n).requests_info

\* on a client that retries, a single eth_getLogs was answered with an error
\* and the middleware raised it after that one attempt
C25_Witness ==
    /\ w3.should_retry
    /\ Len(batcher.transport) = 2
    /\ Transport(1).how = "single"
    /\ Transport(1).requests_info[1].method = "eth_call"
    /\ SingleGetLogs(2)
    /\ Transport(2).outcome.kind = "error"
    /\ batcher.at = "raised"
    /\ batcher.raised = "Exception"

\* C25 as stated: an error response to a single eth_getLogs is raised to the
\* caller, on every client.
C25_ErrorResponseAlwaysRaised ==
    \A n \in 1..Len(batcher.transport) :
        SingleGetLogs(n) /\ Transport(n).outcome.kind \in {"error", "exception"} =>
            RaisedAtOnce(n)


\* the batches sent to the transport that the middleware cut in two
BisectedBatches ==
    {n \in 1..Len(batcher.transport) :
        /\ Transport(n).how = "batch"
        /\ ~GetLogsPacket(Transport(n).requests_info)
        /\ \/ Transport(n).outcome.shape # "list"
           \/ Transport(n).outcome.failing = 1..Len(Transport(n).requests_info)}

\* the transport calls a call of the middleware on n requests can still cost
\* a client that does not retry: 2n - 1, one for each batch and each request
\* of a bisection down to single requests
CallCost(n) == IF n = 0 THEN 1 ELSE 2 * n - 1

RECURSIVE Cost(_)
\* the transport calls the calls on the stack can still cost: those of each
\* call to make, and one for each request the list comprehension has left
Cost(stack_) ==
    IF stack_ = <<>> THEN 0
    ELSE LET f == Head(stack_)
         IN  (IF f.op = "call" THEN CallCost(Len(f.requests_info))
              ELSE IF f.op = "request" THEN Len(f.requests_info) - f.i + 1
              ELSE 0)
             + Cost(Tail(stack_))

\* C37: the bisect step is reached with 2 requests or more, so its assert
\* never fails and both halves are non-empty and shorter than the batch; every
\* call the middleware makes on itself is for at least one request and fewer
\* than it was handed. With should_retry = false a batch of n requests costs
\* at most 2n - 1 transport calls and the middleware returns or raises,
\* whatever the transport answers: while it runs it has a call or a request
\* to make next, and every step lowers the cost of the calls still to make.
C37_BisectEndsWithoutRetry ==
    /\ [](batcher.raised # "AssertionError")
    /\ [](\A n \in BisectedBatches :
             LET requests_info == Transport(n).requests_info
             IN  /\ Len(requests_info) >= 2
                 /\ 1 <= Middle(requests_info)
                 /\ Middle(requests_info) < Len(requests_info))
    /\ [](\A k \in 1..Len(batcher.stack) :
             batcher.stack[k].op = "call" =>
                 \/ batcher.stack[k].requests_info = batcher.requests_info
                 \/ /\ 1 <= Len(batcher.stack[k].requests_info)
                    /\ Len(batcher.stack[k].requests_info) < Len(batcher.requests_info))
    /\ []((~w3.should_retry /\ batcher.at # "idle") =>
             /\ Len(batcher.transport) + Cost(batcher.stack)
                   <= CallCost(Len(batcher.requests_info))
             /\ batcher.at = "running" =>
                   /\ Cost(batcher.stack) > 0
                   /\ TopCall.op \in {"call", "request"}
             /\ batcher.at \in {"returned", "raised"} => batcher.stack = <<>>)
    /\ [][(~w3.should_retry /\ batcher.at = "running") =>
             Cost(batcher'.stack) < Cost(batcher.stack)]_vars

\* without retries and with batches of up to 3: the transport failed the
\* batch of 3 and the batch of 2 that bisecting made of it, the three requests
\* went out one by one, and the middleware returned their responses
C37_Witness ==
    /\ ~w3.should_retry /\ w3.rpc_batch_max_size = 3
    /\ batcher.at = "returned"
    /\ Len(batcher.requests_info) = 3 /\ Len(batcher.returned) = 3
    /\ Len(batcher.transport) = 5
    /\ BisectedBatches = {1, 3}
    /\ Transport(1).outcome.shape = "exception"
    /\ Transport(3).outcome.shape = "exception"

----------------------------------------------------------------------------
(* The capability probes of Web3Advanced.__init__ that size the requests:  *)
(* _find_max_filter_range and _find_max_batch_size. Each pass of a probe's *)
(* loop sends one request to the node, which accepts or refuses it.        *)

BATCH_SIZES_TO_TRY == {1000, 500, 200, 100, 50, 20, 10, 5, 2, 1}

\* the chain heads self.eth.block_number may give the range probe: a chain
\* shorter than the widest range, and one longer
Heads == {8, 20000}

\* sorted([...], reverse=True)
SortedDescending(S) ==
    [k \in 1..Cardinality(S) |->
        CHOOSE x \in S : Cardinality({y \in S : y > x}) = k - 1]

\* reversed(...)
Reversed(list) ==
    [k \in 1..Len(list) |-> list[Len(list) + 1 - k]]

\* what the node may do with the getLogs of the range probe: answer with no
\* logs, answer with logs, or refuse
RangeOutcomes == {"empty", "logs", "exception"}

\* what the node may do with the batch of the size probe: answer each
\* request, answer fewer, or refuse
SizeOutcomes == {"results", "fewer", "exception"}

\* faulty variant, not the code: any answer of the node counts, empty or not
RangeAcceptedWithAnyResult(outcome) ==
    outcome # "exception"

\* the try body of _find_max_filter_range gets to its return
RangeAccepted(outcome) ==
    outcome = "empty"

\* faulty variant, not the code: the size that failed is the one returned
WorkingSizeOfLastTried(working_size, batch_size, outcome) ==
    batch_size

\* working_size after the pass that tried batch_size
WorkingSize(working_size, batch_size, outcome) ==
    IF outcome = "results" THEN batch_size ELSE working_size

\* a probe about to run, on a chain whose head is current_block
Probing(method, current_block) ==
    [method |-> method, at |-> "probing", current_block |-> current_block,
     next |-> 1, tried |-> <<>>, working_size |-> 0, sleeps |-> 0, result |-> 0]

\* one pass of the for loop of _find_max_filter_range
find_max_filter_range ==
    \E outcome \in RangeOutcomes :
        /\ probe.method = "_find_max_filter_range"
        /\ probe.at = "probing"
        /\ LET candidates == SortedDescending(FILTER_RANGES_TO_TRY)
               filter_range == candidates[probe.next]
               request == [tried |-> filter_range,
                           fromBlock |-> probe.current_block - 5 - filter_range + 1,
                           toBlock |-> probe.current_block - 5,
                           outcome |-> outcome]
           IN  probe' =
                 IF RangeAccepted(outcome)
                 THEN [probe EXCEPT !.tried = Append(@, request),
                                    !.at = "returned", !.result = filter_range]
                 ELSE IF filter_range = candidates[Len(candidates)]
                 THEN [probe EXCEPT !.tried = Append(@, request),
                                    !.at = "returned", !.result = 0]
                 ELSE [probe EXCEPT !.tried = Append(@, request),
                                    !.next = @ + 1, !.sleeps = @ + 1]
        /\ UNCHANGED <<w3, getLogsVars, threads, observed, engine, builder, merged, batcher, resolved>>

\* one pass of the for loop of _find_max_batch_size, inside its one try
find_max_batch_size ==
    \E outcome \in SizeOutcomes :
        /\ probe.method = "_find_max_batch_size"
        /\ probe.at = "probing"
        /\ LET candidates == Reversed(SortedDescending(BATCH_SIZES_TO_TRY))
               batch_size == candidates[probe.next]
               request == [tried |-> batch_size, fromBlock |-> 0, toBlock |-> 0,
                           outcome |-> outcome]
               working_size == WorkingSize(probe.working_size, batch_size, outcome)
           IN  probe' =
                 IF outcome # "results" \/ probe.next = Len(candidates)
                 THEN [probe EXCEPT !.tried = Append(@, request),
                                    !.working_size = working_size,
                                    !.sleeps = IF outcome = "results" THEN @ + 1 ELSE @,
                                    !.at = "returned", !.result = working_size]
                 ELSE [probe EXCEPT !.tried = Append(@, request),
                                    !.working_size = working_size,
                                    !.next = @ + 1, !.sleeps = @ + 1]
        /\ UNCHANGED <<w3, getLogsVars, threads, observed, engine, builder, merged, batcher, resolved>>

\* a client under construction, at one of the two probes
InitProbe ==
    /\ \E method \in {"_find_max_filter_range", "_find_max_batch_size"},
          current_block \in Heads :
            probe = Probing(method, current_block)
    /\ w3 = Unused
    /\ NoGetLogs
    /\ threads = Unused
    /\ observed = Unused
    /\ engine = Unused
    /\ builder = Unused
    /\ merged = Unused
    /\ batcher = Unused
    /\ resolved = Unused

NextProbe ==
    \/ find_max_filter_range
    \/ find_max_batch_size

SpecProbe == InitProbe /\ [][NextProbe]_vars


\* the candidates tried so far are the first ones of `candidates`, in order
TriedInOrder(candidates) ==
    /\ Len(probe.tried) <= Len(candidates)
    /\ \A k \in 1..Len(probe.tried) : probe.tried[k].tried = candidates[k]

\* C26: _find_max_filter_range tries 10000, 5000, 2000, 1000, 500, 200, 100,
\* 50, 20, 10, 5, 2, 1 in this order, returns the first one whose getLogs is
\* answered with an empty result and tries none after it, and returns 0
\* exactly when each of the thirteen failed.
C26_FirstAcceptedRange ==
    probe.method = "_find_max_filter_range" =>
        /\ TriedInOrder(<<10000, 5000, 2000, 1000, 500, 200, 100, 50, 20, 10, 5, 2, 1>>)
        /\ \A k \in 1..(Len(probe.tried) - 1) : probe.tried[k].outcome # "empty"
        /\ \A k \in 1..Len(probe.tried) :
              probe.tried[k].toBlock - probe.tried[k].fromBlock + 1 = probe.tried[k].tried
        /\ probe.at = "probing" =>
              \A k \in 1..Len(probe.tried) : probe.tried[k].outcome # "empty"
        /\ probe.at = "returned" =>
              /\ probe.tried # <<>>
              /\ probe.result # 0 =>
                    /\ probe.tried[Len(probe.tried)].outcome = "empty"
                    /\ probe.tried[Len(probe.tried)].tried = probe.result
              /\ probe.result = 0 <=>
                    /\ Len(probe.tried) = 13
                    /\ \A k \in 1..13 : probe.tried[k].outcome # "empty"

\* the node refused 10000, 5000 and 2000, answered 1000 with logs, and
\* answered 500 with none: 500 it is
C26_Witness ==
    /\ probe.method = "_find_max_filter_range"
    /\ probe.at = "returned"
    /\ probe.result = 500
    /\ Len(probe.tried) = 5
    /\ probe.tried[3].outcome = "exception"
    /\ probe.tried[4].outcome = "logs"

\* C27: _find_max_batch_size tries 1, 2, 5, 10, 20, 50, 100, 200, 500, 1000
\* in this order and stops at the first size that fails: it returns the last
\* size tried before it, 0 when size 1 fails, and 1000 when none fails.
C27_LargestBeforeFirstFailure ==
    probe.method = "_find_max_batch_size" =>
        /\ TriedInOrder(<<1, 2, 5, 10, 20, 50, 100, 200, 500, 1000>>)
        /\ \A k \in 1..(Len(probe.tried) - 1) : probe.tried[k].outcome = "results"
        /\ probe.at = "probing" =>
              \A k \in 1..Len(probe.tried) : probe.tried[k].outcome = "results"
        /\ probe.at = "returned" =>
              /\ probe.tried # <<>>
              /\ IF probe.tried[Len(probe.tried)].outcome = "results"
                 THEN Len(probe.tried) = 10 /\ probe.result = 1000
                 ELSE IF Len(probe.tried) = 1
                 THEN probe.result = 0
                 ELSE probe.result = probe.tried[Len(probe.tried) - 1].tried
              /\ \A k \in 1..Len(probe.tried) :
                    probe.tried[k].outcome # "results" =>
                        probe.result < probe.tried[k].tried

\* batches of up to 50 were answered in full, the batch of 100 was not: 50
C27_Witness ==
    /\ probe.method = "_find_max_batch_size"
    /\ probe.at = "returned"
    /\ probe.result = 50
    /\ Len(probe.tried) = 7
    /\ probe.tried[7].outcome = "fewer"


----------------------------------------------------------------------------
(* EthAdvanced.get_logs from its filter to the branch it takes: the bounds *)
(* given as tags, or not given, are resolved with get_block while the      *)
(* chain grows.                                                            *)

\* the tags a bound can be given as
Tags == {"earliest", "latest"}

\* a bound of the filter: a block number, a tag, or not given
BoundNumber(n) == [given |-> "number", number |-> n]
BoundTag(tag) == [given |-> tag, number |-> -1]
Absent == [given |-> "absent", number |-> -1]

FilterBounds ==
    {BoundNumber(n) : n \in Blocks} \cup {BoundTag(tag) : tag \in Tags} \cup {Absent}

\* "fromBlock" in filter_params and isinstance(filter_params["fromBlock"], int)
IsInt(bound) == bound.given = "number"

\* filter_params.get("fromBlock", "earliest"), filter_params.get("toBlock", "latest")
BlockIdentifier(bound, default) ==
    IF bound.given = "absent" THEN default ELSE bound.given

\* the block the node answers get_block(block_identifier) with, at this head
BlockOfTag(block_identifier, head) ==
    NodeBlock(IF block_identifier = "earliest" THEN 0 ELSE head)

\* what get_logs keeps of the block get_block returned: ["number"]
KeptOfBlock(block) ==
    [number |-> block["number"], hash |-> None]

\* get_block's `if self.w3.latest_seen_block < block["number"]` and assignment
SeenBlock(client, block) ==
    [client EXCEPT !.latest_seen_block = IF @ < block["number"] THEN block["number"] ELSE @]

\* get_logs before it is called, against a chain of this head
NotResolving(head) ==
    [at |-> "idle", head |-> head,
     filter |-> [fromBlock |-> Absent, toBlock |-> Absent,
                 fromBlockParentHash |-> None, toBlockHash |-> None],
     from_block |-> -1, to_block |-> -1, to_block_hash |-> None,
     asked |-> <<>>, branch |-> "none", request |-> LogsRequest(None, 0, 0, FALSE),
     error |-> "none"]

\* the application calls get_logs with a filter without blockHash, and without
\* the archive; lines 158-180
EnterGetLogs ==
    \E fromBlock \in FilterBounds, toBlock \in FilterBounds,
       with_parent_hash \in BOOLEAN, with_to_hash \in BOOLEAN :
        /\ resolved.at = "idle"
        /\ LET fresh == NotResolving(resolved.head)
               filter == [fromBlock |-> fromBlock, toBlock |-> toBlock,
                          fromBlockParentHash |->
                              IF ~with_parent_hash THEN None
                              ELSE IF IsInt(fromBlock) THEN NodeHash(fromBlock.number - 1)
                              ELSE NodeHash(resolved.head - 1),
                          toBlockHash |->
                              IF ~with_to_hash THEN None
                              ELSE IF IsInt(toBlock) THEN NodeHash(toBlock.number)
                              ELSE NodeHash(resolved.head)]
           IN  resolved' =
                 IF w3.filter_block_range = 0
                 THEN [fresh EXCEPT !.filter = filter, !.at = "raised",
                                    !.error = "Unsupported"]
                 ELSE [fresh EXCEPT !.filter = filter, !.at = "fromBlock",
                                    !.to_block_hash = filter.toBlockHash]
        /\ UNCHANGED <<w3, getLogsVars, threads, observed, engine, builder, merged, batcher, probe>>

\* lines 182-184: fromBlock, when it is no number, becomes the number of the
\* block get_block answers
ResolveFromBlock ==
    /\ resolved.at = "fromBlock"
    /\ IF IsInt(resolved.filter.fromBlock)
       THEN /\ resolved' = [resolved EXCEPT !.from_block = resolved.filter.fromBlock.number,
                                            !.at = "toBlock"]
            /\ UNCHANGED w3
       ELSE IF resolved.filter.fromBlockParentHash # None
       THEN /\ resolved' = [resolved EXCEPT !.at = "raised", !.error = "AssertionError"]
            /\ UNCHANGED w3
       ELSE LET block_identifier == BlockIdentifier(resolved.filter.fromBlock, "earliest")
                block == BlockOfTag(block_identifier, resolved.head)
            IN  /\ resolved' = [resolved EXCEPT
                                   !.from_block = KeptOfBlock(block).number,
                                   !.asked = Append(@, [block_identifier |-> block_identifier,
                                                        block |-> block]),
                                   !.at = "toBlock"]
                /\ w3' = SeenBlock(w3, block)
    /\ UNCHANGED <<getLogsVars, threads, observed, engine, builder, merged, batcher, probe>>

\* lines 186-188: the same for toBlock
ResolveToBlock ==
    /\ resolved.at = "toBlock"
    /\ IF IsInt(resolved.filter.toBlock)
       THEN /\ resolved' = [resolved EXCEPT !.to_block = resolved.filter.toBlock.number,
                                            !.at = "dispatch"]
            /\ UNCHANGED w3
       ELSE IF resolved.filter.toBlockHash # None
       THEN /\ resolved' = [resolved EXCEPT !.at = "raised", !.error = "AssertionError"]
            /\ UNCHANGED w3
       ELSE LET block_identifier == BlockIdentifier(resolved.filter.toBlock, "latest")
                block == BlockOfTag(block_identifier, resolved.head)
            IN  /\ resolved' = [resolved EXCEPT
                                   !.to_block = KeptOfBlock(block).number,
                                   !.to_block_hash = KeptOfBlock(block).hash,
                                   !.asked = Append(@, [block_identifier |-> block_identifier,
                                                        block |-> block]),
                                   !.at = "dispatch"]
                /\ w3' = SeenBlock(w3, block)
    /\ UNCHANGED <<getLogsVars, threads, observed, engine, builder, merged, batcher, probe>>

\* lines 197-242 and on: the branch get_logs takes with the resolved bounds,
\* and the request it sends when that is a request for one block
TakeBranch ==
    /\ resolved.at = "dispatch"
    /\ LET f == Frame(None, resolved.from_block, resolved.to_block,
                      resolved.filter.fromBlockParentHash, resolved.to_block_hash,
                      FALSE, 0, "top")
       IN  resolved' =
             IF Dispatch(f) = "assert_range"
             THEN [resolved EXCEPT !.at = "raised", !.error = "AssertionError",
                                   !.branch = Dispatch(f)]
             ELSE [resolved EXCEPT !.at = "dispatched", !.branch = Dispatch(f),
                                   !.request = InnerRequest(f)]
    /\ UNCHANGED <<w3, getLogsVars, threads, observed, engine, builder, merged, batcher, probe>>

\* the chain grows by a block
NewHead ==
    /\ resolved.head < MaxBlock
    /\ resolved' = [resolved EXCEPT !.head = @ + 1]
    /\ UNCHANGED <<w3, getLogsVars, threads, observed, engine, builder, merged, batcher, probe>>

\* a client after construction, with and without eth_getLogs, and a chain
InitResolve ==
    /\ w3 \in [filter_block_range : FilterRanges, latest_seen_block : {0},
               unstable_blocks : {DefaultUnstableBlocks}, should_retry : {TRUE},
               subsquid_available : {FALSE}]
    /\ \E head \in Blocks : resolved = NotResolving(head)
    /\ NoGetLogs
    /\ threads = Unused
    /\ observed = Unused
    /\ engine = Unused
    /\ builder = Unused
    /\ merged = Unused
    /\ batcher = Unused
    /\ probe = Unused

NextResolve ==
    \/ EnterGetLogs
    \/ ResolveFromBlock
    \/ ResolveToBlock
    \/ TakeBranch
    \/ NewHead

SpecResolve == InitResolve /\ [][NextResolve]_vars


\* a bound of the running call was resolved by get_block
ResolvedByGetBlock ==
    ~IsInt(resolved.filter.fromBlock) \/ ~IsInt(resolved.filter.toBlock)

\* C30: when fromBlock or toBlock is a tag or is not given, and both bounds
\* then are the same block, get_logs asks for the logs of that block by its
\* hash, the hash of the block get_block returned, not by its number.
C30_ResolvedBlockQueriedByHash ==
    ( /\ resolved.at = "dispatched"
      /\ ResolvedByGetBlock
      /\ resolved.from_block = resolved.to_block )
    => /\ resolved.branch = "single_by_hash"
       /\ resolved.request.blockHash = NodeHash(resolved.to_block)


----------------------------------------------------------------------------
(* EthAdvanced.__init__ and _wrap_methods_with_retry: the wrappers that the
   clients of one process put around the methods and properties of eth *)

\* the clients one process constructs or deep-copies (copy_of is 0 for a
\* constructed client, and the client copied for a copy)
MaxClients == 2

\* the properties that _wrap_methods_with_retry wraps on the class
PROPERTIES_TO_RETRY == {"accounts", "block_number", "gas_price", "max_priority_fee", "syncing"}

\* the methods that _wrap_methods_with_retry wraps on the instance (one of the
\* 23 stands for all: the loop treats them alike)
METHODS_TO_RETRY == {"get_balance"}

\* the methods that wrap their request at each call and take no_retry
MethodsWrappedPerCall == {"call", "get_block", "get_block_number"}

\* the process before any client was built: the properties of the class are
\* those of web3's Eth
NoClients ==
    [clients |-> <<>>, wrappers |-> 0, at |-> "idle", client |-> 0, op |-> "none",
     answer |-> "none", frames |-> <<>>, invocations |-> 0, errors |-> <<>>,
     raised |-> "none", result |-> "none"]

\* EthAdvanced.__init__ for the client w3_: with should_retry its methods are
\* wrapped on the instance, and each property of the class is replaced by a
\* property whose getter is exponential_retry around the getter the class had
EthInit(st, w3_) ==
    [st EXCEPT !.clients = Append(@, w3_),
               !.wrappers = IF w3_.should_retry THEN @ + 1 ELSE @]

\* the exponential_retry loops between the caller and the request: a property is
\* read through every wrapper on the class, whichever client reads it; a wrapped
\* method has the wrapper of its instance; call, get_block and get_block_number
\* build one wrapper and pass it no_retry
Loops(st, client, op, no_retry) ==
    IF op \in PROPERTIES_TO_RETRY THEN st.wrappers
    ELSE IF op \in METHODS_TO_RETRY
    THEN IF st.clients[client].should_retry /\ ~no_retry THEN 1 ELSE 0
    ELSE IF no_retry \/ ~st.clients[client].should_retry THEN 0 ELSE 1

\* the loop that catches error e: the innermost one whose except block does not
\* raise it (0 when every loop raises it, or there is none)
Catching(frames, e) ==
    LET sleeping == {k \in 1..Len(frames) : ~Raises(e, frames[k])}
    IN  IF sleeping = {} THEN 0
        ELSE CHOOSE k \in sleeping : \A j \in sleeping : j <= k

\* the counters of the loops after the loop at k slept on an error: it counts
\* one retry, and the loops inside it are entered anew
Retried(frames, k) ==
    [i \in 1..Len(frames) |->
        IF i < k THEN frames[i] ELSE IF i = k THEN frames[i] + 1 ELSE 0]

\* Web3Advanced(node_url, should_retry): Web3.__init__ attaches EthAdvanced
Construct ==
    \E should_retry \in BOOLEAN :
        /\ engine.at # "running"
        /\ Len(engine.clients) < MaxClients
        /\ engine' = EthInit(engine, [should_retry |-> should_retry, copy_of |-> 0])
        /\ UNCHANGED <<w3, getLogsVars, threads, observed, builder, merged, batcher, probe, resolved>>

\* copy.deepcopy of a client: should_retry is copied and Web3.__init__ attaches
\* a new EthAdvanced
DeepCopyClient ==
    \E c \in 1..Len(engine.clients) :
        /\ engine.at # "running"
        /\ Len(engine.clients) < MaxClients
        /\ engine' = EthInit(engine, [should_retry |-> engine.clients[c].should_retry,
                                       copy_of |-> c])
        /\ UNCHANGED <<w3, getLogsVars, threads, observed, builder, merged, batcher, probe, resolved>>

\* a caller reads a property or calls a method of client.eth, on a node that
\* answers every request with `answer`
ReadOrCall ==
    \E client \in 1..Len(engine.clients),
       op \in PROPERTIES_TO_RETRY \cup METHODS_TO_RETRY \cup MethodsWrappedPerCall,
       no_retry \in BOOLEAN, answer \in Errors \cup Values :
        /\ engine.at # "running"
        /\ op \in PROPERTIES_TO_RETRY => ~no_retry
        /\ engine' = [engine EXCEPT
                         !.at = "running", !.client = client, !.op = op,
                         !.answer = answer,
                         !.frames = [i \in 1..Loops(engine, client, op, no_retry) |-> 0],
                         !.invocations = 0, !.errors = <<>>, !.raised = "none",
                         !.result = "none"]
        /\ UNCHANGED <<w3, getLogsVars, threads, observed, builder, merged, batcher, probe, resolved>>

\* the request is made: its value returns through every loop; its error is
\* raised by the loops inside the one that sleeps on it, which then makes the
\* request again, and reaches the caller when every loop raises it
Attempt ==
    LET e == engine.answer
        k == Catching(engine.frames, e)
    IN  /\ engine.at = "running"
        /\ (e \in Errors /\ k > 0) => engine.frames[k] < MaxRetries
        /\ engine' =
              IF e \in Values
              THEN [engine EXCEPT !.invocations = @ + 1, !.result = e, !.at = "returned"]
              ELSE IF k = 0
              THEN [engine EXCEPT !.invocations = @ + 1, !.errors = Append(@, e),
                                  !.raised = e, !.at = "raised"]
              ELSE [engine EXCEPT !.invocations = @ + 1, !.errors = Append(@, e),
                                  !.frames = Retried(@, k)]
        /\ UNCHANGED <<w3, getLogsVars, threads, observed, builder, merged, batcher, probe, resolved>>

InitWrap ==
    /\ engine = NoClients
    /\ w3 = Unused
    /\ NoGetLogs
    /\ threads = Unused
    /\ observed = Unused
    /\ builder = Unused
    /\ merged = Unused
    /\ batcher = Unused
    /\ probe = Unused
    /\ resolved = Unused

NextWrap ==
    \/ Construct
    \/ DeepCopyClient
    \/ ReadOrCall
    \/ Attempt

SpecWrap == InitWrap /\ [][NextWrap]_vars

\* C38 as stated: a client constructed with should_retry=false never retries;
\* every eth method call and property read on it makes the request once and
\* surfaces the first error, whatever clients were constructed before it.
C38_NoRetryClientAsksOnce ==
    (engine.at # "idle" /\ ~engine.clients[engine.client].should_retry) =>
        /\ engine.invocations <= 1
        /\ engine.at \in {"returned", "raised"} => engine.invocations = 1
        /\ engine.at = "raised" => engine.errors = <<engine.raised>>

\* C39 as stated: however many clients that retry were constructed or
\* deep-copied, a property read on a node that always answers "unknown block"
\* makes at most UnknownBlockRetries + 1 = 4 requests before it raises.
C39_PropertyReadAsksFourTimes ==
    (engine.op \in PROPERTIES_TO_RETRY /\ engine.answer = "unknown block") =>
        engine.invocations <= UnknownBlockRetries + 1


----------------------------------------------------------------------------
(* MultiCall._decode_muilticall on the bytes an undeployed multicall returned *)

\* the longest byte string the node returns
MaxBytes == 5

\* the byte values of the model: 0 and 1 as length and as success flag, and the
\* lengths of a record of header and flag (3) and of one with bytes of gas usage (5)
Bytes == {0, 1, 3, 5}

\* passes of the record loop after which the model follows it no further: one
\* more than a loop that consumes a byte per pass can make
MaxPasses == MaxBytes + 1

\* bytes[lo:hi] of Python: the bytes at offsets lo .. hi - 1 that exist
BytesSlice(bytes, lo, hi) ==
    SubSeq(bytes, lo + 1, IF hi < Len(bytes) THEN hi ELSE Len(bytes))

\* int.from_bytes(bytes, byteorder='big')
RECURSIVE from_bytes(_)
from_bytes(bytes) ==
    IF bytes = <<>> THEN 0
    ELSE 256 * from_bytes(SubSeq(bytes, 1, Len(bytes) - 1)) + bytes[Len(bytes)]

\* the body of the second loop: the flag, the gas usage and the return data of
\* one record; a record too short to hold them gives the exception as its
\* result and no gas usage
DecodeRecord(raw_return_encoded) ==
    IF raw_return_encoded = <<>>
    THEN [raw_return |-> [kind |-> "IndexError", data |-> <<>>],
          gas_usage |-> [known |-> FALSE, value |-> 0]]
    ELSE IF Len(raw_return_encoded) = 1
    THEN [raw_return |-> [kind |-> "ValueError", data |-> <<>>],
          gas_usage |-> [known |-> FALSE, value |-> 0]]
    ELSE [raw_return |->
              [kind |-> IF raw_return_encoded[1] = 1 THEN "bytes"
                        ELSE "ContractLogicError",
               data |-> BytesSlice(raw_return_encoded, 5, Len(raw_return_encoded))],
          gas_usage |-> [known |-> TRUE,
                         value |-> from_bytes(BytesSlice(raw_return_encoded, 1, 5))]]

\* one pass of `while len(multicall_result_copy) != 0`
DecodePass ==
    LET copy == builder.multicall_result_copy
        data_len == from_bytes(BytesSlice(copy, 0, 2))
    IN  /\ builder.at = "segmenting"
        /\ Len(copy) # 0
        /\ Len(builder.raw_returns_encoded) < MaxPasses
        /\ builder' = [builder EXCEPT
                          !.raw_returns_encoded = Append(@, BytesSlice(copy, 2, data_len)),
                          !.multicall_result_copy = BytesSlice(copy, data_len, Len(copy))]
        /\ UNCHANGED <<w3, getLogsVars, threads, observed, engine, merged, batcher, probe, resolved>>

\* the loop has ended: every record is decoded, and both lists are returned
DecodeRecords ==
    LET decoded == [i \in 1..Len(builder.raw_returns_encoded) |->
                       DecodeRecord(builder.raw_returns_encoded[i])]
    IN  /\ builder.at = "segmenting"
        /\ Len(builder.multicall_result_copy) = 0
        /\ builder' = [builder EXCEPT
                          !.raw_returns = [i \in DOMAIN decoded |-> decoded[i].raw_return],
                          !.gas_usages = [i \in DOMAIN decoded |-> decoded[i].gas_usage],
                          !.at = "returned"]
        /\ UNCHANGED <<w3, getLogsVars, threads, observed, engine, merged, batcher, probe, resolved>>

\* _decode_muilticall is called with the bytes of the node's answer
InitDecode ==
    /\ \E n \in 0..MaxBytes : \E multicall_result \in [1..n -> Bytes] :
          builder = [at |-> "segmenting", multicall_result |-> multicall_result,
                     multicall_result_copy |-> multicall_result,
                     raw_returns_encoded |-> <<>>, raw_returns |-> <<>>,
                     gas_usages |-> <<>>]
    /\ w3 = Unused
    /\ NoGetLogs
    /\ threads = Unused
    /\ observed = Unused
    /\ engine = Unused
    /\ merged = Unused
    /\ batcher = Unused
    /\ probe = Unused
    /\ resolved = Unused

NextDecode ==
    \/ DecodePass
    \/ DecodeRecords

SpecDecode == InitDecode /\ [][NextDecode]_vars

\* C40 as stated: every pass of the record loop strictly shortens the remaining
\* input, whatever the 2-byte length field of the record holds (0, 1, or more
\* than the bytes left), so that the loop ends; and the call yields one
\* (result, gas usage) pair for each record consumed.
C40_EveryPassShortens ==
    /\ [][Len(builder'.raw_returns_encoded) > Len(builder.raw_returns_encoded)
              => Len(builder'.multicall_result_copy) < Len(builder.multicall_result_copy)]_vars
    /\ [](Len(builder.raw_returns_encoded) <= Len(builder.multicall_result))
    /\ [](builder.at = "returned" =>
              /\ Len(builder.raw_returns) = Len(builder.raw_returns_encoded)
              /\ Len(builder.gas_usages) = Len(builder.raw_returns_encoded))


====
